---- MODULE Spec2Model ----
(***************************************************************************)
(* Ingestion pipeline of the news aggregator: similarity engine, grouping  *)
(* service, pipeline stages (dedup, filter, translate, group, persist) and *)
(* the fetch engine that orchestrates them.                                *)
(*                                                                         *)
(* Text is a sequence of character codes:                                  *)
(*   0 space, 1..26 'a'..'z', 30..39 '0'..'9', 50 other punctuation,       *)
(*   101..126 'A'..'Z', 200 a Hangul syllable.                             *)
(* A float in [0,1] is the exact fraction [num, den].                      *)
(* A timestamp is a number of hours.                                       *)
(***************************************************************************)
EXTENDS Integers, Sequences, FiniteSets, TLC

VARIABLES
    store,      \* feed_items table: sequence of FeedItem rows, insertion order
    ctx,        \* the PipelineContext of the pass in progress
    pc,         \* position of the running entry point
    pre,        \* the context as it was when the current stage was entered
    translator, \* the translator the stage holds: "none", "noclient", "service"
    log,        \* what the collaborators of the last stage were seen to do
    source_status,  \* source_status table: source name -> row
    run         \* the call of run_all or run_source in progress

vars == <<store, ctx, pc, pre, translator, log, source_status, run>>

----------------------------------------------------------------------------
(* Similarity engine                                                       *)

IsAlNum(c) == c \in 1..26 \/ c \in 30..39
IsHangul(c) == c = 200
LowerChar(c) == IF c \in 101..126 THEN c - 100 ELSE c
Lower(s) == [i \in 1..Len(s) |-> LowerChar(s[i])]

STOPWORDS ==
    { <<1>>, <<1,14>>, <<20,8,5>>, <<1,14,4>>, <<15,18>>, <<20,15>>,
      <<6,15,18>>, <<15,6>>, <<9,14>>, <<15,14>>, <<1,20>>, <<23,9,20,8>>,
      <<2,25>>, <<6,18,15,13>>, <<1,19>>, <<9,19>>, <<1,18,5>>, <<2,5>>,
      <<20,8,9,19>>, <<20,8,1,20>>, <<23,9,12,12>> }

\* re.split(r"[^a-z0-9]+", s): the pieces between maximal separator runs,
\* empty pieces at the ends included
RECURSIVE ReSplit(_, _, _, _, _)
ReSplit(s, i, cur, inSep, acc) ==
    IF i > Len(s) THEN Append(acc, cur)
    ELSE IF IsAlNum(s[i]) THEN ReSplit(s, i + 1, Append(cur, s[i]), FALSE, acc)
    ELSE IF inSep THEN ReSplit(s, i + 1, cur, TRUE, acc)
    ELSE ReSplit(s, i + 1, <<>>, TRUE, Append(acc, cur))

KeepToken(t) == t # <<>> /\ t \notin STOPWORDS /\ Len(t) >= 2

normalize_title(title) ==
    SelectSeq(ReSplit(Lower(title), 1, <<>>, FALSE, <<>>), KeepToken)

SeqToSet(s) == {s[i] : i \in 1..Len(s)}

Frac(n, d) == [num |-> n, den |-> d]
\* r >= p/100 and r < p/100 for a fraction r
FracGE(r, p) == 100 * r.num >= p * r.den
FracLT(r, p) == 100 * r.num < p * r.den
FracGT(r, q) == r.num * q.den > q.num * r.den

JACCARD_THRESHOLD == 85
JACCARD_NEAR_MIN == 80
LEVENSHTEIN_THRESHOLD == 85
WINDOW_HOURS == 24

jaccard_similarity(tokens_a, tokens_b) ==
    IF tokens_a = <<>> /\ tokens_b = <<>> THEN Frac(1, 1)
    ELSE IF tokens_a = <<>> \/ tokens_b = <<>> THEN Frac(0, 1)
    ELSE Frac(Cardinality(SeqToSet(tokens_a) \cap SeqToSet(tokens_b)),
              Cardinality(SeqToSet(tokens_a) \cup SeqToSet(tokens_b)))

Min2(a, b) == IF a <= b THEN a ELSE b
Max2(a, b) == IF a >= b THEN a ELSE b

\* one row of the dp table: row[j + 1] is dp[i][j]
\* (the tests on v and row make the evaluation of each cell strict)
RECURSIVE LevRow(_, _, _, _, _)
LevRow(prev, ch, b, j, cur) ==
    IF j > Len(b) THEN cur
    ELSE LET cost == IF ch = b[j] THEN 0 ELSE 1
             v == Min2(Min2(prev[j + 1] + 1, cur[j] + 1), prev[j] + cost)
             row == Append(cur, v)
         IN  IF Len(row) = j + 1 THEN LevRow(prev, ch, b, j + 1, row) ELSE row

RECURSIVE LevRows(_, _, _, _)
LevRows(a, b, i, prev) ==
    IF i > Len(a) THEN prev
    ELSE LET row == LevRow(prev, a[i], b, 1, <<prev[1] + 1>>)
         IN  IF Len(row) = Len(b) + 1 THEN LevRows(a, b, i + 1, row) ELSE row

LevDistance(a, b) == LevRows(a, b, 1, [j \in 1..(Len(b) + 1) |-> j - 1])[Len(b) + 1]

levenshtein_ratio(text_a, text_b) ==
    IF text_a = text_b THEN Frac(1, 1)
    ELSE IF text_a = <<>> \/ text_b = <<>> THEN Frac(0, 1)
    ELSE LET m == Max2(Len(text_a), Len(text_b))
         IN  Frac(m - LevDistance(text_a, text_b), m)

\* Optional[float]: ok = FALSE is None
NoScore == [ok |-> FALSE, num |-> 0, den |-> 1]
Score(r) == [ok |-> TRUE, num |-> r.num, den |-> r.den]

match_score(title_a, title_b) ==
    LET jaccard == jaccard_similarity(normalize_title(title_a), normalize_title(title_b))
        ratio == levenshtein_ratio(Lower(title_a), Lower(title_b))
    IN  IF FracGE(jaccard, JACCARD_THRESHOLD) THEN Score(jaccard)
        ELSE IF FracGE(jaccard, JACCARD_NEAR_MIN) /\ FracLT(jaccard, JACCARD_THRESHOLD)
                /\ FracGE(ratio, LEVENSHTEIN_THRESHOLD)
             THEN Score(ratio)
        ELSE NoScore

----------------------------------------------------------------------------
(* Title catalogue: the titles items can carry                             *)

TitleText ==
    << <<101,1,0,2,2,0,3,3,0,4,4,0,5,5,0,6,6>>,               \* 1 "Aa bb cc dd ee ff"
       <<101,1,0,2,2,0,3,3,0,4,4,0,5,5,0,6,6,0,7,7>>,         \* 2 "Aa bb cc dd ee ff gg"
       <<101,1,0,2,2,0,3,3,0,4,4,0,5,5,0,6,6,0,7,7,0,8,8>>,   \* 3 "Aa bb cc dd ee ff gg hh"
       <<20,8,5,0,26,26,0,15,6,0,25,25>>,                     \* 4 "the zz of yy"
       <<11,11,11,11,11,11,0,12,12,12,12,12,12,0,13,13,13,13,13,13,0,14,14,14,14,14,14>>,
                                                              \* 5 "kkkkkk llllll mmmmmm nnnnnn"
       <<11,11,11,11,11,11,0,12,12,12,12,12,12,0,13,13,13,13,13,13,0,14,14,14,14,14,14,0,15,15>>,
                                                              \* 6 "kkkkkk llllll mmmmmm nnnnnn oo"
       <<11,11,0,12,12,0,13,13,0,14,14>>,                     \* 7 "kk ll mm nn"
       <<11,11,0,12,12,0,13,13,0,14,14,0,15,15,50>>,          \* 8 "kk ll mm nn oo+"
       <<200,200,0,200,200>>,                                 \* 9 Hangul only
       <<200,200,200,0,5,20,6>> >>                            \* 10 Hangul and "etf"

AllTitles == 1..Len(TitleText)

\* match_score over the catalogue, computed once
MatchTable == [a \in AllTitles |-> [b \in AllTitles |-> match_score(TitleText[a], TitleText[b])]]
Matches(a, b) == MatchTable[a][b].ok

----------------------------------------------------------------------------
(* Items, rows and the run context                                         *)

\* A URL is 10 * domain + path; 0 is the empty string
netloc(url) == url \div 10
\* DedupService.create_hash: the sha256 prefix of the normalized URL, taken
\* as injective on URLs; the result is never the falsy empty string
create_hash(url) == 1000 + url

None == 0
TitleOf(t) == IF t = 0 THEN <<>> ELSE TitleText[t]

\* how the provider answers for an item: in the response to a chunk ("ko" a
\* Korean title, "same" the title as sent, "missing" no entry for its id) and
\* to a request for the item alone ("ko", "same", "raise")
Answers(batch, single) == [batch |-> batch, single |-> single]

\* the distinct keywords of each list that _keyword_hits finds in the text of
\* an item: topic (Bitcoin), off-topic (altcoin) and spam keywords
Hits(btc, alt, ad) == [btc |-> btc, alt |-> alt, ad |-> ad]

\* A normalized item as a fetcher returns it (BaseFetcher.normalize)
NewItem(id, url, url_hash, title, published_at, kw, xl) ==
    [ id |-> id, url |-> url, url_hash |-> url_hash, title |-> title,
      published_at |-> published_at,
      kw |-> kw,                       \* keyword hits of its text (Hits)
      xl |-> xl,                       \* how the provider answers for it
      translated |-> "unset",          \* the "_translated" key: "yes", "no"
      translation_status |-> "unset",
      gid |-> None ]                   \* raw["dedup_group_id"]

\* the fields of the run context that carry the translation policy: the
\* policy flag given by the engine and the counter of the items it drops
PolicyFields(translation_required) ==
    [ translation_required |-> translation_required, translation_dropped |-> 0 ]

\* PipelineContext(db, source_name, items, fetched, translation_required)
PipelineContext(source_name, items, translation_required) ==
    [ source_name |-> source_name, items |-> items, fetched |-> Len(items),
      duplicates |-> 0, filtered |-> 0, translation_failed |-> 0, saved |-> 0 ]
        @@ PolicyFields(translation_required)

NoContext == PipelineContext("", <<>>, FALSE)

\* nothing observed yet: calls of translate_batch_sync, requests sent to the
\* provider for chunks, ids passed to translate_single_item, ids sent to the
\* provider one by one, ids left untranslated by the batch pass, whether the
\* batch call raised, positions the database refused, commits
NoLog ==
    [ batch_calls |-> 0, chunk_requests |-> 0, single_calls |-> <<>>,
      single_requests |-> <<>>, batch_untranslated |-> {}, batch_raised |-> FALSE,
      db_errors |-> {}, commits |-> 0 ]

\* the registered fetchers, in registration order (three of the fourteen: a
\* general source, a Bitcoin-only source and a Korean source)
FETCHERS == <<"googlenews", "bitcoinmagazine", "tokenpost">>
SourceNames == {FETCHERS[i] : i \in 1..Len(FETCHERS)}

\* an optional string: <<>> is None, <<m>> the string m
Nothing == <<>>
Str(m) == <<m>>
\* truth value of an optional string: None and "" are false
Truthy(e) == e # Nothing /\ e[1] # ""

\* a source_status row; a time is the number of the run, None when never
\* set; writes counts the committed updates of the row
NoStatus ==
    [ last_success_at |-> None, last_error_at |-> None, last_error_message |-> Nothing,
      writes |-> 0 ]
NoStatuses == [s \in SourceNames |-> NoStatus]

\* the results dict run_all starts with
NoSummary ==
    [ success |-> TRUE, total_fetched |-> 0, total_saved |-> 0, total_duplicates |-> 0,
      total_filtered |-> 0, total_translation_failed |-> 0,
      total_translation_dropped |-> 0, sources |-> <<>> ]

\* no call in progress. A call keeps what it was given (plan, the table and
\* the statuses at its start), the fetch results, the number of sources it
\* has processed and its results so far
NoRun ==
    [ kind |-> "none", plan |-> <<>>, store0 |-> <<>>, fetch_results |-> <<>>,
      i |-> 0, results |-> NoSummary ]

----------------------------------------------------------------------------
(* DedupGroupService                                                       *)

\* _create_group_id: "group_" + (url_hash, else the hash of the url, else the
\* call's timestamp, which differs from call to call: 2000 + id stands for it)
create_group_id(item) ==
    IF item.url_hash # None THEN item.url_hash
    ELSE IF item.url # 0 THEN create_hash(item.url)
    ELSE 2000 + item.id

\* The rows with published_at >= cutoff in every order that
\* ORDER BY published_at ASC may return them (ties are unordered)
CandidateOrders(st, cutoff) ==
    LET idx == {i \in 1..Len(st) : st[i].published_at >= cutoff}
        n == Cardinality(idx)
    IN  { p \in [1..n -> idx] :
            /\ \A i, j \in 1..n : i # j => p[i] # p[j]
            /\ \A i, j \in 1..n : i < j => st[p[i]].published_at <= st[p[j]].published_at }

\* group_representatives: the first candidate of each group id, in the order
\* of first appearance; ungrouped_items: the candidates without group id
IsCandidate(st, k, domain) ==
    st[k].title # 0 /\ st[k].url # 0 /\ netloc(st[k].url) = domain

\* (variant: every grouped candidate is compared, not only the first per group)
RECURSIVE Representatives_AllMembers(_, _, _, _, _)
Representatives_AllMembers(st, order, domain, i, acc) ==
    IF i > Len(order) THEN acc
    ELSE LET k == order[i]
         IN  IF IsCandidate(st, k, domain) /\ st[k].raw_gid # None
             THEN Representatives_AllMembers(st, order, domain, i + 1, Append(acc, k))
             ELSE Representatives_AllMembers(st, order, domain, i + 1, acc)

RECURSIVE Representatives(_, _, _, _, _)
Representatives(st, order, domain, i, acc) ==
    IF i > Len(order) THEN acc
    ELSE LET k == order[i]
             seen == {st[acc[j]].raw_gid : j \in 1..Len(acc)}
         IN  IF IsCandidate(st, k, domain) /\ st[k].raw_gid # None
                /\ st[k].raw_gid \notin seen
             THEN Representatives(st, order, domain, i + 1, Append(acc, k))
             ELSE Representatives(st, order, domain, i + 1, acc)

\* (variant: the candidates that carry a group id are collected as well)
RECURSIVE Ungrouped_AnyRow(_, _, _, _, _)
Ungrouped_AnyRow(st, order, domain, i, acc) ==
    IF i > Len(order) THEN acc
    ELSE LET k == order[i]
         IN  IF IsCandidate(st, k, domain)
             THEN Ungrouped_AnyRow(st, order, domain, i + 1, Append(acc, k))
             ELSE Ungrouped_AnyRow(st, order, domain, i + 1, acc)

RECURSIVE Ungrouped(_, _, _, _, _)
Ungrouped(st, order, domain, i, acc) ==
    IF i > Len(order) THEN acc
    ELSE LET k == order[i]
         IN  IF IsCandidate(st, k, domain) /\ st[k].raw_gid = None
             THEN Ungrouped(st, order, domain, i + 1, Append(acc, k))
             ELSE Ungrouped(st, order, domain, i + 1, acc)

\* (variant: the first representative with a score is taken, whatever the
\* scores of the later ones)
RECURSIVE BestGroup_FirstMatching(_, _, _, _, _, _)
BestGroup_FirstMatching(st, reps, title, i, best_score, best_group_id) ==
    IF i > Len(reps) THEN best_group_id
    ELSE LET score == MatchTable[title][st[reps[i]].title]
         IN  IF score.ok /\ best_group_id = None
             THEN BestGroup_FirstMatching(st, reps, title, i + 1,
                                          Frac(score.num, score.den), st[reps[i]].raw_gid)
             ELSE BestGroup_FirstMatching(st, reps, title, i + 1, best_score,
                                          best_group_id)

\* step 1: the representative with the highest score, the first one on a tie
RECURSIVE BestGroup(_, _, _, _, _, _)
BestGroup(st, reps, title, i, best_score, best_group_id) ==
    IF i > Len(reps) THEN best_group_id
    ELSE LET score == MatchTable[title][st[reps[i]].title]
         IN  IF score.ok /\ FracGT(score, best_score)
             THEN BestGroup(st, reps, title, i + 1, Frac(score.num, score.den),
                            st[reps[i]].raw_gid)
             ELSE BestGroup(st, reps, title, i + 1, best_score, best_group_id)

\* step 2: the first ungrouped candidate with a score, 0 if none
RECURSIVE FirstMatch(_, _, _, _)
FirstMatch(st, ungrouped, title, i) ==
    IF i > Len(ungrouped) THEN 0
    ELSE IF MatchTable[title][st[ungrouped[i]].title].ok THEN ungrouped[i]
    ELSE FirstMatch(st, ungrouped, title, i + 1)

\* assign_group_id for one order of the candidate query: the item with its
\* group id set on raw, and the table after the call
assign_group_id(st, item, order) ==
    LET domain == netloc(item.url)
        reps == Representatives(st, order, domain, 1, <<>>)
        ungrouped == Ungrouped(st, order, domain, 1, <<>>)
        best_group_id == BestGroup(st, reps, item.title, 1, Frac(0, 1), None)
        single == FirstMatch(st, ungrouped, item.title, 1)
        new_group_id == create_group_id(item)
    IN  IF item.title = 0 \/ item.url = 0
        THEN [item |-> [item EXCEPT !.gid = new_group_id], store |-> st]
        ELSE IF best_group_id # None
        THEN [item |-> [item EXCEPT !.gid = best_group_id], store |-> st]
        ELSE IF single # 0
        THEN [item |-> [item EXCEPT !.gid = new_group_id],
              store |-> [st EXCEPT ![single].raw_gid = new_group_id]]
        ELSE [item |-> [item EXCEPT !.gid = new_group_id], store |-> st]

AssignOutcomes(st, item) ==
    { assign_group_id(st, item, order) :
        order \in CandidateOrders(st, item.published_at - WINDOW_HOURS) }

\* GroupingStage.process: assign_group_id for each item of the context in turn
RECURSIVE GroupingOutcomes(_, _, _)
GroupingOutcomes(items, k, st) ==
    IF k > Len(items) THEN {[items |-> items, store |-> st]}
    ELSE UNION { GroupingOutcomes([items EXCEPT ![k] = r.item], k + 1, r.store) :
                    r \in AssignOutcomes(st, items[k]) }

----------------------------------------------------------------------------
(* PersistStage                                                            *)

\* the columns of feed_items that _save_item fills beside those of the model
\* class: group_id and translation_status
PolicyColumns(group_id, translation_status) ==
    [ group_id |-> group_id, translation_status |-> translation_status ]

\* _save_item: the FeedItem row written for an item
FeedItem(item, source) ==
    [ id |-> item.id, source |-> source, title |-> item.title, url |-> item.url,
      published_at |-> item.published_at, url_hash |-> item.url_hash,
      raw_gid |-> item.gid ]
        @@ PolicyColumns(IF item.gid # None THEN item.gid ELSE item.id,
                         item.translation_status)

\* the nested transaction of one item fails when the primary key is taken,
\* or when the database refuses the write (db_errors: the items it refuses)
SaveRaises(st, item, k, db_errors) ==
    k \in db_errors \/ \E r \in 1..Len(st) : st[r].id = item.id

\* (variant: the policy counts the failed item but the item is still saved)
RECURSIVE PersistLoop_CountOnly(_, _, _, _)
PersistLoop_CountOnly(c, st, k, db_errors) ==
    IF k > Len(c.items) THEN [ctx |-> c, store |-> st]
    ELSE LET counted ==
                 IF c.translation_required /\ c.items[k].translation_status = "failed"
                 THEN [c EXCEPT !.translation_dropped = @ + 1]
                 ELSE c
         IN  IF SaveRaises(st, c.items[k], k, db_errors)
             THEN PersistLoop_CountOnly(counted, st, k + 1, db_errors)
             ELSE PersistLoop_CountOnly([counted EXCEPT !.saved = @ + 1],
                        Append(st, FeedItem(c.items[k], c.source_name)), k + 1, db_errors)

\* (variant: the first item whose write raises ends the loop)
RECURSIVE PersistLoop_StopAtError(_, _, _, _)
PersistLoop_StopAtError(c, st, k, db_errors) ==
    IF k > Len(c.items) THEN [ctx |-> c, store |-> st]
    ELSE IF c.translation_required /\ c.items[k].translation_status = "failed"
    THEN PersistLoop_StopAtError([c EXCEPT !.translation_dropped = @ + 1], st, k + 1,
                                 db_errors)
    ELSE IF SaveRaises(st, c.items[k], k, db_errors)
    THEN [ctx |-> c, store |-> st]
    ELSE PersistLoop_StopAtError([c EXCEPT !.saved = @ + 1],
                     Append(st, FeedItem(c.items[k], c.source_name)), k + 1, db_errors)

\* PersistStage.process from item k on: the context and the table at the end
RECURSIVE PersistLoop(_, _, _, _)
PersistLoop(c, st, k, db_errors) ==
    IF k > Len(c.items) THEN [ctx |-> c, store |-> st]
    ELSE IF c.translation_required /\ c.items[k].translation_status = "failed"
    THEN PersistLoop([c EXCEPT !.translation_dropped = @ + 1], st, k + 1, db_errors)
    ELSE IF SaveRaises(st, c.items[k], k, db_errors)
    THEN PersistLoop(c, st, k + 1, db_errors)
    ELSE PersistLoop([c EXCEPT !.saved = @ + 1],
                     Append(st, FeedItem(c.items[k], c.source_name)), k + 1, db_errors)

PersistStage_process(c, st, db_errors) == PersistLoop(c, st, 1, db_errors)

----------------------------------------------------------------------------
(* Grouping and persisting batches of items                                *)

MaxStore == 3       \* rows the table may hold
MaxBatch == 2       \* items of one context
Times == {0, 10, 30}
Domains == {1, 2}
GroupTitles == {1, 2, 3}
MaxManual == 1      \* rows written by hand

\* the k-th item of a batch arriving when the table holds n rows
BatchItem(n, k, a) ==
    NewItem(n + k, 10 * a.domain + n + k, create_hash(10 * a.domain + n + k),
            a.title, a.published_at, Hits(1, 0, 0), Answers("ko", "ko"))

\* what an arriving item may be: on the first domain the first title at hours
\* 0 and 30 and the other two at hours 10 and 30, and one article of the
\* second domain
Attrs ==
    { a \in [title : GroupTitles, domain : Domains, published_at : Times] :
        \/ a.domain = 1 /\ a.title = 1 /\ a.published_at # 10
        \/ a.domain = 1 /\ a.title # 1 /\ a.published_at # 0
        \/ a.domain = 2 /\ a.title = 1 /\ a.published_at = 10 }

InitGroup ==
    /\ store = <<>>
    /\ ctx = NoContext
    /\ pc = "idle"
    /\ pre = NoContext
    /\ translator = "service"
    /\ log = NoLog
    /\ source_status = NoStatuses
    /\ run = NoRun

\* a context reaches the grouping stage
GroupReceive ==
    /\ pc = "idle"
    /\ \E n \in 1..MaxBatch :
         /\ Len(store) + n <= MaxStore
         /\ \E as \in [1..n -> Attrs] :
              ctx' = PipelineContext("googlenews",
                        [k \in 1..n |-> [BatchItem(Len(store), k, as[k])
                                            EXCEPT !.translation_status = "ok"]], TRUE)
    /\ pc' = "group"
    /\ UNCHANGED <<store, pre, translator, log, source_status, run>>

GroupingStage ==
    /\ pc = "group"
    /\ \E out \in GroupingOutcomes(ctx.items, 1, store) :
         /\ ctx' = [ctx EXCEPT !.items = out.items]
         /\ store' = out.store
    /\ pre' = ctx
    /\ pc' = "persist"
    /\ UNCHANGED <<translator, log, source_status, run>>

PersistStage ==
    /\ pc = "persist"
    /\ \E db_errors \in SUBSET (1..Len(ctx.items)) :
         LET out == PersistStage_process(ctx, store, db_errors)
         IN  /\ ctx' = out.ctx
             /\ store' = out.store
             /\ log' = [NoLog EXCEPT !.db_errors = db_errors,
                                     !.commits = IF out.ctx.saved > 0 THEN 1 ELSE 0]
    /\ pre' = ctx
    /\ pc' = "done"
    /\ UNCHANGED <<translator, source_status, run>>

\* the pass is over and its context is dropped
EndPass ==
    /\ pc = "done"
    /\ pc' = "idle"
    /\ ctx' = NoContext
    /\ pre' = NoContext
    /\ log' = NoLog
    /\ UNCHANGED <<store, translator, source_status, run>>

\* POST /feed/manual: a row written without raw, hence without group id
AddManualArticle ==
    /\ pc = "idle"
    /\ Len(store) < MaxStore
    /\ Cardinality({r \in 1..Len(store) : store[r].source = "manual"}) < MaxManual
    /\ \E a \in Attrs :
         LET url == 10 * a.domain + Len(store) + 1
         IN  store' = Append(store,
                 [ id |-> Len(store) + 1, source |-> "manual", title |-> a.title,
                   url |-> url, published_at |-> a.published_at,
                   url_hash |-> create_hash(url), raw_gid |-> None,
                   group_id |-> None, translation_status |-> "ok" ])
    /\ UNCHANGED <<ctx, pc, pre, translator, log, source_status, run>>

NextGroup == GroupReceive \/ GroupingStage \/ PersistStage \/ EndPass \/ AddManualArticle

SpecGroup == InitGroup /\ [][NextGroup]_vars

----------------------------------------------------------------------------
(* Claims on grouping                                                      *)

Rows == 1..Len(store)
Members(g) == {r \in Rows : store[r].raw_gid = g}
\* the member of a group published strictly before every other member
IsEarliest(e) ==
    \A r \in Members(store[e].raw_gid) :
        r # e => store[e].published_at < store[r].published_at

\* C1: every persisted item that carries a group id has a match score against
\* the chronologically earliest persisted item carrying the same group id
C1_MembersMatchEarliest ==
    \A x, e \in Rows :
        (store[x].raw_gid # None /\ store[e].raw_gid = store[x].raw_gid /\ IsEarliest(e))
            => Matches(store[x].title, store[e].title)

Abs(n) == IF n < 0 THEN 0 - n ELSE n

\* rows a, b, c went through the pipeline, are on one domain and inside one
\* time window, a matches b and b matches c, but a does not match c
Chain(a, b, c) ==
    /\ Cardinality({a, b, c}) = 3
    /\ \A r \in {a, b, c} : store[r].source # "manual"
    /\ netloc(store[a].url) = netloc(store[b].url)
    /\ netloc(store[b].url) = netloc(store[c].url)
    /\ \A r, q \in {a, b, c} :
          Abs(store[r].published_at - store[q].published_at) <= WINDOW_HOURS
    /\ Matches(store[a].title, store[b].title)
    /\ Matches(store[b].title, store[c].title)
    /\ ~Matches(store[a].title, store[c].title)

SameGroup(a, b, c) ==
    /\ store[a].raw_gid # None
    /\ store[a].raw_gid = store[b].raw_gid
    /\ store[b].raw_gid = store[c].raw_gid

\* C2 as stated: whatever the processing order, a chain a ~ b ~ c with a and c
\* unrelated is never put in one group
C2_NoChainInOneGroup ==
    \A a, b, c \in Rows : Chain(a, b, c) => ~SameGroup(a, b, c)

\* a was persisted before b and c and is published strictly before them, and
\* the three are the only rows of their domain
EndFirst(a, b, c) ==
    /\ a < b /\ a < c
    /\ store[a].published_at < store[b].published_at
    /\ store[a].published_at < store[c].published_at
    /\ \A r \in Rows : netloc(store[r].url) = netloc(store[a].url) => r \in {a, b, c}

\* C2 amended: the chain is not put in one group when the item processed first
\* is an end of the chain (a or c) and is published strictly before the other
\* two, the three being the only persisted items of their domain
C2_NoChainWhenEndFirst ==
    \A a, b, c \in Rows :
        (Chain(a, b, c) /\ (EndFirst(a, b, c) \/ EndFirst(c, b, a)))
            => ~SameGroup(a, b, c)

\* the middle item joined the group of the end that came first; the other
\* end was processed last and kept out of it
C2_Witness ==
    \E a, b, c \in Rows :
        /\ Chain(a, b, c) /\ EndFirst(a, b, c)
        /\ b < c
        /\ store[a].raw_gid = store[b].raw_gid
        /\ store[c].raw_gid # None
        /\ store[c].raw_gid # store[a].raw_gid

\* C18: an item that has a match score against a row of another domain
\* inside the item's time window leaves the grouping stage with the group id
\* of that row
C18_CrossDomainGrouped ==
    pc = "persist" =>
        \A k \in 1..Len(ctx.items) : \A r \in Rows :
            ( /\ netloc(store[r].url) # netloc(ctx.items[k].url)
              /\ store[r].published_at >= ctx.items[k].published_at - WINDOW_HOURS
              /\ Matches(ctx.items[k].title, store[r].title) )
                => ctx.items[k].gid = store[r].raw_gid

\* C22: the group_id column of every row equals the group id in the raw
\* bag of the row, also for a row that had no group id and is given one when
\* a new item matches it
C22_ColumnMirrorsRaw ==
    \A r \in Rows : store[r].group_id = store[r].raw_gid

----------------------------------------------------------------------------
(* DedupStage                                                              *)

\* (variant: the query reports no hash as present)
get_existing_hashes_NoneFound(st, hashes) == {}

\* DedupService.get_existing_hashes(db, hashes): the hashes among those asked
\* for that a row of the table carries (one query for the whole batch)
get_existing_hashes(st, hashes) ==
    {h \in hashes : \E r \in 1..Len(st) : st[r].url_hash = h}

\* the hashes the first loop collects: the keys of hash_to_items
BatchHashes(items) ==
    {items[k].url_hash : k \in {j \in 1..Len(items) : items[j].url_hash # None}}

\* (variant: the hashes met earlier in the batch are not remembered)
RECURSIVE DedupLoop_NoSeen(_, _, _, _, _)
DedupLoop_NoSeen(c, existing_hashes, k, new_items, seen_hashes) ==
    IF k > Len(c.items) THEN [c EXCEPT !.items = new_items]
    ELSE LET item_data == c.items[k]
             url_hash == item_data.url_hash
         IN  IF url_hash = None
             THEN DedupLoop_NoSeen(c, existing_hashes, k + 1,
                                   Append(new_items, item_data), seen_hashes)
             ELSE IF url_hash \in existing_hashes \/ url_hash \in seen_hashes
             THEN DedupLoop_NoSeen([c EXCEPT !.duplicates = @ + 1], existing_hashes,
                                   k + 1, new_items, seen_hashes)
             ELSE DedupLoop_NoSeen(c, existing_hashes, k + 1,
                                   Append(new_items, item_data), seen_hashes)

\* (variant: an item without url_hash is kept and counted as a duplicate)
RECURSIVE DedupLoop_CountHashless(_, _, _, _, _)
DedupLoop_CountHashless(c, existing_hashes, k, new_items, seen_hashes) ==
    IF k > Len(c.items) THEN [c EXCEPT !.items = new_items]
    ELSE LET item_data == c.items[k]
             url_hash == item_data.url_hash
         IN  IF url_hash = None
             THEN DedupLoop_CountHashless([c EXCEPT !.duplicates = @ + 1],
                                          existing_hashes, k + 1,
                                          Append(new_items, item_data), seen_hashes)
             ELSE IF url_hash \in existing_hashes \/ url_hash \in seen_hashes
             THEN DedupLoop_CountHashless([c EXCEPT !.duplicates = @ + 1],
                                          existing_hashes, k + 1, new_items, seen_hashes)
             ELSE DedupLoop_CountHashless(c, existing_hashes, k + 1,
                                          Append(new_items, item_data),
                                          seen_hashes \cup {url_hash})

\* the second loop of DedupStage.process from item k on
RECURSIVE DedupLoop(_, _, _, _, _)
DedupLoop(c, existing_hashes, k, new_items, seen_hashes) ==
    IF k > Len(c.items) THEN [c EXCEPT !.items = new_items]
    ELSE LET item_data == c.items[k]
             url_hash == item_data.url_hash
         IN  IF url_hash = None
             THEN DedupLoop(c, existing_hashes, k + 1,
                            Append(new_items, item_data), seen_hashes)
             ELSE IF url_hash \in existing_hashes \/ url_hash \in seen_hashes
             THEN DedupLoop([c EXCEPT !.duplicates = @ + 1], existing_hashes,
                            k + 1, new_items, seen_hashes)
             ELSE DedupLoop(c, existing_hashes, k + 1,
                            Append(new_items, item_data), seen_hashes \cup {url_hash})

DedupStage_process(c, st) ==
    DedupLoop(c, get_existing_hashes(st, BatchHashes(c.items)), 1, <<>>, {})

MaxDedup == 4       \* items of a context entering the dedup stage
DedupUrls == {0, 11, 12, 13}
StoredUrls == {11, 12}

\* url_hash as BaseFetcher.normalize sets it: None for an empty url
HashOf(url) == IF url = 0 THEN None ELSE create_hash(url)

RECURSIVE RowsOf(_)
RowsOf(urls) ==
    IF urls = {} THEN <<>>
    ELSE LET u == CHOOSE x \in urls : \A y \in urls : x <= y
         IN  <<FeedItem([NewItem(100 + u, u, HashOf(u), 1, 0, Hits(1, 0, 0), Answers("ko", "ko"))
                            EXCEPT !.gid = HashOf(u), !.translation_status = "ok"],
                        "googlenews")>> \o RowsOf(urls \ {u})

InitDedup ==
    /\ store \in {RowsOf(urls) : urls \in SUBSET StoredUrls}
    /\ ctx = NoContext
    /\ pc = "idle"
    /\ pre = NoContext
    /\ translator = "service"
    /\ log = NoLog
    /\ source_status = NoStatuses
    /\ run = NoRun

\* the fetched items of a source reach the dedup stage
DedupReceive ==
    /\ pc = "idle"
    /\ \E n \in 0..MaxDedup :
         \E urls \in [1..n -> DedupUrls] :
            ctx' = PipelineContext("googlenews",
                      [k \in 1..n |-> NewItem(k, urls[k], HashOf(urls[k]), 1, 0,
                                              Hits(1, 0, 0), Answers("ko", "ko"))], FALSE)
    /\ pc' = "dedup"
    /\ UNCHANGED <<store, pre, translator, log, source_status, run>>

DedupStage ==
    /\ pc = "dedup"
    /\ ctx' = DedupStage_process(ctx, store)
    /\ pre' = ctx
    /\ pc' = "deduped"
    /\ UNCHANGED <<store, translator, log, source_status, run>>

\* the stage is run once more on the context it returned
DedupStageAgain ==
    /\ pc = "deduped"
    /\ ctx' = DedupStage_process(ctx, store)
    /\ pre' = ctx
    /\ pc' = "deduped again"
    /\ UNCHANGED <<store, translator, log, source_status, run>>

NextDedup == DedupReceive \/ DedupStage \/ DedupStageAgain

SpecDedup == InitDedup /\ [][NextDedup]_vars

StoreHashes == {store[r].url_hash : r \in Rows}

\* the positions of the input that survive: no url_hash, or a url_hash the
\* table does not hold and no earlier item of the input carries
Survives(items, k) ==
    \/ items[k].url_hash = None
    \/ /\ items[k].url_hash \notin StoreHashes
       /\ \A j \in 1..(k - 1) : items[j].url_hash # items[k].url_hash

RECURSIVE Survivors(_, _)
Survivors(items, k) ==
    IF k > Len(items) THEN <<>>
    ELSE IF Survives(items, k) THEN <<items[k]>> \o Survivors(items, k + 1)
    ELSE Survivors(items, k + 1)

\* C3: the list DedupStage.process returns is the input subsequence, in input
\* order, of the items without url_hash plus the first item of every url_hash
\* the store does not hold; no two survivors share a url_hash and no
\* survivor's url_hash is persisted
C3_DedupSurvivors ==
    pc = "deduped" =>
        /\ ctx.items = Survivors(pre.items, 1)
        /\ \A i, j \in 1..Len(ctx.items) :
              (i # j /\ ctx.items[i].url_hash # None)
                  => ctx.items[i].url_hash # ctx.items[j].url_hash
        /\ \A i \in 1..Len(ctx.items) :
              ctx.items[i].url_hash # None => ctx.items[i].url_hash \notin StoreHashes

\* an input with an item without url_hash, a persisted url_hash and a url_hash
\* carried twice has gone through the stage
C3_Witness ==
    /\ pc = "deduped"
    /\ \E i, j, k, m \in 1..Len(pre.items) :
          /\ pre.items[i].url_hash = None
          /\ pre.items[j].url_hash \in StoreHashes
          /\ k < m
          /\ pre.items[k].url_hash # None
          /\ pre.items[k].url_hash = pre.items[m].url_hash
          /\ pre.items[k].url_hash \notin StoreHashes
    /\ Len(ctx.items) = 2

\* C20: run again on the context it returned, against the same table, the
\* stage returns the same list, in which no url_hash is persisted or carried
\* twice, and leaves the duplicates counter as it was
C20_DedupIdempotent ==
    pc = "deduped again" =>
        /\ ctx.items = pre.items
        /\ ctx.duplicates = pre.duplicates
        /\ \A i \in 1..Len(ctx.items) :
              ctx.items[i].url_hash # None =>
                  /\ ctx.items[i].url_hash \notin StoreHashes
                  /\ \A j \in 1..Len(ctx.items) :
                        i # j => ctx.items[i].url_hash # ctx.items[j].url_hash

\* the first run dropped a persisted and a repeated url_hash and kept an item
\* without url_hash and a new one; the second run has returned
C20_Witness ==
    /\ pc = "deduped again"
    /\ store # <<>>
    /\ pre.duplicates = 2
    /\ ctx.duplicates = 2
    /\ Len(ctx.items) = 2
    /\ \E i, j \in 1..Len(ctx.items) :
          ctx.items[i].url_hash = None /\ ctx.items[j].url_hash # None

----------------------------------------------------------------------------
(* TranslateService and TranslateStage                                     *)

BATCH_SIZE == 15
MAX_RETRIES == 3
KOREAN_SOURCES == {"coindeskkorea", "blockmedia", "tokenpost"}
KoreanTitle == 9

\* TranslateService.is_korean_text
is_korean_text(title) ==
    \E i \in 1..Len(TitleOf(title)) : IsHangul(TitleOf(title)[i])

Flag(b) == IF b THEN "yes" ELSE "no"
\* item.get("_translated", False)
Translated(item) == item.translated = "yes"

\* the chunk an item falls in: items[i:i + BATCH_SIZE] for i = 0, 15, 30, ...
ChunkOf(k) == ((k - 1) \div BATCH_SIZE) + 1
NumChunks(n) == (n + BATCH_SIZE - 1) \div BATCH_SIZE

\* _parse_batch_response for one item of a chunk whose response parsed
ParsedItem(item) ==
    IF item.xl.batch = "missing" THEN [item EXCEPT !.translated = "no"]
    ELSE LET new_title == IF item.xl.batch = "ko" THEN KoreanTitle ELSE item.title
         IN  [item EXCEPT !.title = new_title,
                          !.translated = Flag(is_korean_text(new_title))]

\* _translate_single_batch for one item: the chunk's first o.raises attempts
\* raise; the next one, if any is left, answers with JSON or with garbage
BatchItemResult(item, o) ==
    IF o.raises >= MAX_RETRIES \/ o.response = "garbage"
    THEN [item EXCEPT !.translated = "no"]
    ELSE ParsedItem(item)

\* requests _translate_single_batch sends for a chunk
AttemptsOf(o) == IF o.raises >= MAX_RETRIES THEN MAX_RETRIES ELSE o.raises + 1

RECURSIVE SumAttempts(_, _)
SumAttempts(chunks, n) ==
    IF n = 0 THEN 0 ELSE AttemptsOf(chunks[n]) + SumAttempts(chunks, n - 1)

\* translate_batch_sync: the items after the call and the requests sent
translate_batch_sync(tr, items, chunks) ==
    IF tr = "noclient" \/ Len(items) = 0
    THEN [ items |-> [k \in 1..Len(items) |-> [items[k] EXCEPT !.translated = "no"]],
           requests |-> 0 ]
    ELSE [ items |-> [k \in 1..Len(items) |->
                         BatchItemResult(items[k], chunks[ChunkOf(k)])],
           requests |-> SumAttempts(chunks, NumChunks(Len(items))) ]

\* translate_single_item: translate_to_korean returns the texts as sent when
\* there is no client or the request raises
translate_single_item(tr, item) ==
    LET translated_title ==
            IF tr # "noclient" /\ item.xl.single = "ko" THEN KoreanTitle ELSE item.title
    IN  [item EXCEPT !.title = translated_title,
                     !.translated = Flag(is_korean_text(translated_title))]

\* ids of the items at the positions ks, in list order
RECURSIVE IdsAt(_, _, _)
IdsAt(items, ks, k) ==
    IF k > Len(items) THEN <<>>
    ELSE IF k \in ks THEN <<items[k].id>> \o IdsAt(items, ks, k + 1)
    ELSE IdsAt(items, ks, k + 1)

\* (variant: the items that stay untranslated are removed from the context)
RECURSIVE ReflectStatus_DropFailed(_, _)
ReflectStatus_DropFailed(c, k) ==
    IF k > Len(c.items) THEN c
    ELSE IF ~Translated(c.items[k])
    THEN ReflectStatus_DropFailed(
            [c EXCEPT !.translation_failed = @ + 1,
                      !.items = SubSeq(@, 1, k - 1) \o SubSeq(@, k + 1, Len(@))], k)
    ELSE ReflectStatus_DropFailed([c EXCEPT !.items[k].translation_status = "ok"], k + 1)

\* the closing loop of TranslateStage.process from item k on
RECURSIVE ReflectStatus(_, _)
ReflectStatus(c, k) ==
    IF k > Len(c.items) THEN c
    ELSE IF ~Translated(c.items[k])
    THEN ReflectStatus([c EXCEPT !.translation_failed = @ + 1,
                                 !.items[k].translation_status = "failed"], k + 1)
    ELSE ReflectStatus([c EXCEPT !.items[k].translation_status = "ok"], k + 1)

\* TranslateStage.process with translator tr; w tells whether running the
\* batch call in a thread raises and how the provider answers each chunk.
\* The result is the context returned and what the translator was asked.
TranslateStage_process(c, tr, w) ==
    IF tr = "none" \/ Len(c.items) = 0
    THEN [ctx |-> c, log |-> NoLog]
    ELSE IF c.source_name \in KOREAN_SOURCES
    THEN [ ctx |-> [c EXCEPT !.items =
                      [k \in 1..Len(c.items) |->
                          [c.items[k] EXCEPT !.translated = "yes",
                                             !.translation_status = "skipped"]]],
           log |-> NoLog ]
    ELSE IF w.thread_error
    THEN [ ctx |-> [c EXCEPT !.translation_failed = Len(c.items),
                             !.items =
                      [k \in 1..Len(c.items) |->
                          [c.items[k] EXCEPT !.translated = "no",
                                             !.translation_status = "failed"]]],
           log |-> [NoLog EXCEPT !.batch_calls = 1, !.batch_raised = TRUE] ]
    ELSE LET batch == translate_batch_sync(tr, c.items, w.chunks)
             failed_items == {k \in 1..Len(batch.items) : ~Translated(batch.items[k])}
             retried == [k \in 1..Len(batch.items) |->
                            IF k \in failed_items
                            THEN translate_single_item(tr, batch.items[k])
                            ELSE batch.items[k]]
         IN  [ ctx |-> ReflectStatus([c EXCEPT !.items = retried], 1),
               log |-> [NoLog EXCEPT
                          !.batch_calls = 1,
                          !.chunk_requests = batch.requests,
                          !.batch_untranslated = {batch.items[k].id : k \in failed_items},
                          !.single_calls = IdsAt(batch.items, failed_items, 1),
                          !.single_requests =
                              IF tr = "noclient" THEN <<>>
                              ELSE IdsAt(batch.items, failed_items, 1)] ]

MaxTranslate == 2   \* items of a context entering the translate stage
TranslateTitles == {1, KoreanTitle}
TranslateSources == {"googlenews", "tokenpost"}

\* the ways the outside may behave during one batch call
Worlds(n) ==
    [ thread_error : BOOLEAN,
      chunks : [1..NumChunks(n) ->
                  [raises : 0..MAX_RETRIES, response : {"json", "garbage"}]] ]

InitTranslate ==
    /\ store = <<>>
    /\ ctx = NoContext
    /\ pc = "idle"
    /\ pre = NoContext
    /\ translator \in {"none", "noclient", "service"}
    /\ log = NoLog
    /\ source_status = NoStatuses
    /\ run = NoRun

\* the filtered items of a source reach the translate stage
TranslateReceive ==
    /\ pc = "idle"
    /\ \E n \in 0..MaxTranslate, source \in TranslateSources :
         \E titles \in [1..n -> TranslateTitles],
            xl \in [1..n -> [batch : {"ko", "same", "missing"},
                             single : {"ko", "same", "raise"}]] :
            ctx' = PipelineContext(source,
                      [k \in 1..n |-> NewItem(k, 10 + k, create_hash(10 + k),
                                              titles[k], 0, Hits(1, 0, 0), xl[k])], TRUE)
    /\ pc' = "translate"
    /\ UNCHANGED <<store, pre, translator, log, source_status, run>>

TranslateStage ==
    /\ pc = "translate"
    /\ \E w \in Worlds(Len(ctx.items)) :
         LET out == TranslateStage_process(ctx, translator, w)
         IN  ctx' = out.ctx /\ log' = out.log
    /\ pre' = ctx
    /\ pc' = "translated"
    /\ UNCHANGED <<store, translator, source_status, run>>

NextTranslate == TranslateReceive \/ TranslateStage

SpecTranslate == InitTranslate /\ [][NextTranslate]_vars

----------------------------------------------------------------------------
(* Claims on the translate stage                                           *)

Positions == 1..Len(pre.items)
TimesIn(seq, x) == Cardinality({i \in 1..Len(seq) : seq[i] = x})
FinalFailed == {k \in 1..Len(ctx.items) : ctx.items[k].translation_status = "failed"}
\* the batch call was made and failed for the item at position k
BatchFailedFor(k) ==
    /\ log.batch_calls = 1
    /\ log.batch_raised \/ pre.items[k].id \in log.batch_untranslated

\* C7: an item for which the batch call failed (the call raised, or its
\* result left the item untranslated) is retried with exactly one individual
\* call; when that retry succeeds the item ends ok and is not counted in
\* translation_failed
C7_FailedBatchRetriedOnce ==
    pc = "translated" =>
        \A k \in Positions :
            BatchFailedFor(k) =>
                /\ TimesIn(log.single_calls, pre.items[k].id) = 1
                /\ ctx.items[k].translated = "yes" =>
                      /\ ctx.items[k].translation_status = "ok"
                      /\ ctx.translation_failed = Cardinality(FinalFailed)

\* C8: the stage returns the same items in the same order, and
\* translation_failed has grown by the number of items that end failed
C8_FailOpen ==
    pc = "translated" =>
        /\ Len(ctx.items) = Len(pre.items)
        /\ \A k \in Positions : ctx.items[k].id = pre.items[k].id
        /\ ctx.translation_failed = pre.translation_failed + Cardinality(FinalFailed)

\* a batch went through the provider; one item ends failed after its
\* individual retry and another ends ok
C8_Witness ==
    /\ pc = "translated"
    /\ log.batch_calls = 1
    /\ log.single_calls # <<>>
    /\ \E i, j \in 1..Len(ctx.items) :
          /\ ctx.items[i].translation_status = "failed"
          /\ ctx.items[j].translation_status = "ok"
    /\ ctx.translation_failed = 1

\* C9: without translator, or on a native-language source, every item ends
\* skipped, no provider call is made and translation_failed is unchanged
C9_SkippedWithoutTranslatorOrNative ==
    (pc = "translated" /\ (translator = "none" \/ pre.source_name \in KOREAN_SOURCES)) =>
        /\ \A k \in 1..Len(ctx.items) : ctx.items[k].translation_status = "skipped"
        /\ log = NoLog
        /\ ctx.translation_failed = pre.translation_failed

\* C10: without translator on a non-native source, the items without Korean
\* in the title end failed and are counted once each, the items with Korean
\* in the title end skipped
C10_NoTranslatorMarksFailed ==
    (pc = "translated" /\ translator = "none" /\ pre.source_name \notin KOREAN_SOURCES) =>
        /\ Len(ctx.items) = Len(pre.items)
        /\ \A k \in Positions :
              ctx.items[k].translation_status =
                  IF is_korean_text(pre.items[k].title) THEN "skipped" ELSE "failed"
        /\ ctx.translation_failed = pre.translation_failed
              + Cardinality({k \in Positions : ~is_korean_text(pre.items[k].title)})

\* C11: the provider is asked once per chunk during one run of the stage,
\* whether the request of a chunk raises or not: a chunk whose request
\* raises is not asked again
C11_OneRequestPerChunk ==
    (pc = "translated" /\ translator = "service" /\ log.batch_calls = 1
        /\ ~log.batch_raised) =>
        log.chunk_requests = NumChunks(Len(pre.items))

----------------------------------------------------------------------------
(* Persisting under the translation policy                                 *)

MaxPersist == 2     \* items of a context entering the persist stage
Statuses == {"ok", "failed", "skipped"}

InitPersist ==
    /\ store \in {RowsOf(urls) : urls \in SUBSET StoredUrls}
    /\ ctx = NoContext
    /\ pc = "idle"
    /\ pre = NoContext
    /\ translator = "service"
    /\ log = NoLog
    /\ source_status = NoStatuses
    /\ run = NoRun

\* the grouped items of a source reach the persist stage
PersistReceive ==
    /\ pc = "idle"
    /\ \E n \in 0..MaxPersist, translation_required \in BOOLEAN :
         \E status \in [1..n -> Statuses] :
            ctx' = PipelineContext("googlenews",
                      [k \in 1..n |->
                          [NewItem(k, 20 + k, create_hash(20 + k), 1, 0, Hits(1, 0, 0),
                                   Answers("ko", "ko"))
                              EXCEPT !.translation_status = status[k],
                                     !.gid = create_hash(20 + k)]],
                      translation_required)
    /\ pc' = "persist"
    /\ UNCHANGED <<store, pre, translator, log, source_status, run>>

NextPersist == PersistReceive \/ PersistStage

SpecPersist == InitPersist /\ [][NextPersist]_vars

Written(k) == \E r \in Rows : store[r].id = pre.items[k].id
FailedInput == {k \in Positions : pre.items[k].translation_status = "failed"}

\* C6: under the translation-required policy no item with translation_status
\* failed is written; each one adds one to translation_dropped and nothing to
\* saved, and the other items of the batch are still written
C6_FailedItemsDropped ==
    (pc = "done" /\ pre.translation_required) =>
        /\ \A k \in FailedInput : ~Written(k)
        /\ \A r \in Rows : store[r].translation_status # "failed"
        /\ ctx.translation_dropped = pre.translation_dropped + Cardinality(FailedInput)
        /\ ctx.saved = pre.saved + Cardinality({k \in Positions \ FailedInput : Written(k)})
        /\ \A k \in Positions \ FailedInput : k \notin log.db_errors => Written(k)

\* a batch with a failed item and another item went through the stage under
\* the policy: the other item is in the table, the failed one is not
C6_Witness ==
    /\ pc = "done"
    /\ pre.translation_required
    /\ \E i, j \in Positions :
          /\ pre.items[i].translation_status = "failed"
          /\ pre.items[j].translation_status = "ok"
          /\ Written(j)
          /\ ~Written(i)
    /\ ctx.translation_dropped = 1
    /\ ctx.saved = 1

\* the items the translation policy drops
DroppedInput == IF pre.translation_required THEN FailedInput ELSE {}

\* C19: when the write of an item raises, the stage still returns, the
\* item is not in the table, every other item the policy does not drop is
\* written, saved is the number of items written, and there is one commit
\* exactly when saved > 0
C19_SaveErrorIsolated ==
    (pc = "done" /\ log.db_errors # {}) =>
        /\ \A k \in log.db_errors : ~Written(k)
        /\ \A k \in Positions \ (DroppedInput \cup log.db_errors) : Written(k)
        /\ ctx.saved = pre.saved + Cardinality({k \in Positions : Written(k)})
        /\ log.commits = IF ctx.saved > 0 THEN 1 ELSE 0

\* the write of the first item raised and the second item was written and
\* committed
C19_Witness ==
    /\ pc = "done"
    /\ log.db_errors = {1}
    /\ Len(pre.items) = 2
    /\ ~Written(1)
    /\ Written(2)
    /\ ctx.saved = 1
    /\ log.commits = 1

----------------------------------------------------------------------------
(* BitcoinFilterStage                                                      *)

BITCOIN_ONLY_SOURCES == {"bitcoinmagazine", "optech", "theminermag"}

\* keywords of the three lists (two topic, two off-topic, one spam keyword)
BITCOIN_KEYWORDS == {"bitcoin", "btc"}
ALTCOIN_KEYWORDS == {"xrp", "ripple"}
AD_SPAM_KEYWORDS == {"casino"}

\* _keyword_hits: the keywords of a list that occur as words of the text; a
\* text is the set of its lower-cased words
keyword_hits(text, keywords) == {kw \in keywords : kw \in text}

\* the text fields of an item that the filter reads
ItemText(title, summary, source_ref, url) ==
    [title |-> title, summary |-> summary, source_ref |-> source_ref, url |-> url]

\* f"{title} {summary} {source_ref} {url}"
Combined(t) == t.title \cup t.summary \cup t.source_ref \cup t.url

\* the numbers of distinct hits of the three lists in the combined text
HitsOf(t) ==
    Hits(Cardinality(keyword_hits(Combined(t), BITCOIN_KEYWORDS)),
         Cardinality(keyword_hits(Combined(t), ALTCOIN_KEYWORDS)),
         Cardinality(keyword_hits(Combined(t), AD_SPAM_KEYWORDS)))

\* (variant: off-topic hits reject only when they outnumber the topic hits)
is_bitcoin_related_TieAccepted(kw, source_name) ==
    IF source_name \in BITCOIN_ONLY_SOURCES THEN TRUE
    ELSE IF kw.ad > 0 THEN FALSE
    ELSE IF kw.btc = 0 THEN FALSE
    ELSE IF kw.alt > 0 /\ kw.alt > kw.btc THEN FALSE
    ELSE TRUE

\* is_bitcoin_related on the keyword hits of the item's combined text
is_bitcoin_related(kw, source_name) ==
    IF source_name \in BITCOIN_ONLY_SOURCES THEN TRUE
    ELSE IF kw.ad > 0 THEN FALSE
    ELSE IF kw.btc = 0 THEN FALSE
    ELSE IF kw.alt > 0 /\ kw.alt >= kw.btc THEN FALSE
    ELSE TRUE

RECURSIVE FilterLoop(_, _, _)
FilterLoop(c, k, new_items) ==
    IF k > Len(c.items) THEN [c EXCEPT !.items = new_items]
    ELSE IF is_bitcoin_related(c.items[k].kw, c.source_name)
    THEN FilterLoop(c, k + 1, Append(new_items, c.items[k]))
    ELSE FilterLoop([c EXCEPT !.filtered = @ + 1], k + 1, new_items)

BitcoinFilterStage_process(c) ==
    IF c.source_name \in BITCOIN_ONLY_SOURCES THEN c ELSE FilterLoop(c, 1, <<>>)

MaxFilter == 1      \* items of a context entering the filter stage
TitleWords == SUBSET {"bitcoin", "btc", "xrp", "casino"}
SummaryWords == SUBSET {"xrp", "ripple"}
UrlWords == {{}, {"bitcoin"}}
FilterSources == {"googlenews", "bitcoinmagazine"}

InitFilter ==
    /\ store = <<>>
    /\ ctx = NoContext
    /\ pc = "idle"
    /\ pre = NoContext
    /\ translator = "service"
    /\ log = NoLog
    /\ source_status = NoStatuses
    /\ run = NoRun

\* the new items of a source reach the filter stage
FilterReceive ==
    /\ pc = "idle"
    /\ \E n \in 0..MaxFilter, source \in FilterSources :
         \E text \in [1..n -> {ItemText(t, m, {}, u) :
                                 t \in TitleWords, m \in SummaryWords, u \in UrlWords}] :
            ctx' = PipelineContext(source,
                      [k \in 1..n |->
                          NewItem(k, 10 + k, create_hash(10 + k), 1, 0, HitsOf(text[k]),
                                  Answers("ko", "ko")) @@ [text |-> text[k]]],
                      TRUE)
    /\ pc' = "filter"
    /\ UNCHANGED <<store, pre, translator, log, source_status, run>>

BitcoinFilterStage ==
    /\ pc = "filter"
    /\ ctx' = BitcoinFilterStage_process(ctx)
    /\ pre' = ctx
    /\ pc' = "filtered"
    /\ UNCHANGED <<store, translator, log, source_status, run>>

NextFilter == FilterReceive \/ BitcoinFilterStage

SpecFilter == InitFilter /\ [][NextFilter]_vars

\* the item at position k of the input is in the output
Kept(k) == \E j \in 1..Len(ctx.items) : ctx.items[j].id = pre.items[k].id
TopicHits(k) == Combined(pre.items[k].text) \cap BITCOIN_KEYWORDS
OffTopicHits(k) == Combined(pre.items[k].text) \cap ALTCOIN_KEYWORDS
SpamHits(k) == Combined(pre.items[k].text) \cap AD_SPAM_KEYWORDS

\* C17: an item passes the filter exactly when its source is exempt, or its
\* combined text has no spam keyword, at least one topic keyword and fewer
\* distinct off-topic keywords than distinct topic keywords
C17_AcceptedIff ==
    pc = "filtered" =>
        \A k \in Positions :
            Kept(k) <=>
                \/ pre.source_name \in BITCOIN_ONLY_SOURCES
                \/ /\ SpamHits(k) = {}
                   /\ TopicHits(k) # {}
                   /\ Cardinality(OffTopicHits(k)) < Cardinality(TopicHits(k))

\* an item of a general source with as many off-topic as topic keywords and
\* no spam keyword went through the filter and was rejected
C17_Witness ==
    /\ pc = "filtered"
    /\ pre.source_name = "googlenews"
    /\ \E k \in Positions :
          /\ SpamHits(k) = {}
          /\ Cardinality(TopicHits(k)) = 1
          /\ Cardinality(OffTopicHits(k)) = 1
          /\ ~Kept(k)
    /\ ctx.filtered = 1

----------------------------------------------------------------------------
(* FetchEngine                                                             *)

TRANSLATION_REQUIRED == TRUE
\* datetime.utcnow() during the call: the number of the run
Now == 1

MaxFetch == 1       \* items one fetch returns
Articles == {1, 2}
FetchLists == UNION {[1..n -> Articles] : n \in 0..MaxFetch}
\* what goes wrong while a source is handled: nothing, the first stage
\* raises, the last stage raises before it writes, the database is
\* unavailable (every statement on the session raises), or the database
\* refuses the row of the first item that reaches the persist stage
Faults == {"none", "first", "last", "db", "save"}

\* what the fetcher of a source does in one run, and the fault of the source
PlanEntries ==
    {[raises |-> FALSE, msg |-> "", items |-> l, fault |-> f] :
        l \in FetchLists, f \in Faults}
    \cup {[raises |-> TRUE, msg |-> m, items |-> <<>>, fault |-> f] :
            m \in {"", "timeout"}, f \in Faults}

\* the item the i-th fetcher builds for an article: generate_id(source, hash)
FetchedItem(i, a) ==
    NewItem(10 * i + a, 10 + a, create_hash(10 + a), a, 10 * (a - 1),
            Hits(1, 0, 0), Answers("ko", "ko"))

\* run_all.fetch_only for the i-th fetcher
fetch_only(i, e) ==
    IF e.raises
    THEN [source |-> FETCHERS[i], items |-> <<>>, error |-> Str(e.msg)]
    ELSE [source |-> FETCHERS[i],
          items |-> [k \in 1..Len(e.items) |-> FetchedItem(i, e.items[k])],
          error |-> Nothing]

\* (variant: a success also clears the error of the row)
update_source_status_ClearError(status, source_name, success, error) ==
    [status EXCEPT ![source_name] =
        IF success
        THEN [@ EXCEPT !.last_success_at = Now, !.last_error_at = None,
                       !.last_error_message = Nothing, !.writes = @ + 1]
        ELSE [@ EXCEPT !.last_error_at = Now, !.last_error_message = error,
                       !.writes = @ + 1]]

\* _update_source_status, the commit included
update_source_status(status, source_name, success, error) ==
    [status EXCEPT ![source_name] =
        IF success THEN [@ EXCEPT !.last_success_at = Now, !.writes = @ + 1]
        ELSE [@ EXCEPT !.last_error_at = Now, !.last_error_message = error,
                       !.writes = @ + 1]]

\* the provider answers every chunk at the first attempt
QuietWorld(n) ==
    [ thread_error |-> FALSE,
      chunks |-> [c \in 1..NumChunks(n) |-> [raises |-> 0, response |-> "json"]] ]

\* the stage loop of _process_fetched_items: the context and the table when
\* the loop ends, and the message of the exception that ended it, if any
StageOutcomes(c, st, tr, fault) ==
    IF fault = "first"
    THEN {[ctx |-> c, store |-> st, error |-> Str("dedup error")]}
    ELSE LET deduped == DedupStage_process(c, st)
             filtered == BitcoinFilterStage_process(deduped)
             translated ==
                 TranslateStage_process(filtered, tr, QuietWorld(Len(filtered.items))).ctx
         IN  { IF fault = "last"
               THEN [ctx |-> [translated EXCEPT !.items = g.items], store |-> g.store,
                     error |-> Str("persist error")]
               ELSE LET p == PersistStage_process(
                                [translated EXCEPT !.items = g.items], g.store,
                                IF fault = "save" THEN {1} ELSE {})
                    IN  [ctx |-> p.ctx, store |-> p.store, error |-> Nothing] :
               g \in GroupingOutcomes(translated.items, 1, st) }

\* the result dict _process_fetched_items starts with
NewResult(items, fetch_error) ==
    [ success |-> FALSE, fetched |-> Len(items), saved |-> 0, duplicates |-> 0,
      filtered |-> 0, translation_failed |-> 0, translation_dropped |-> 0,
      error |-> fetch_error ]

\* the call ends with an exception: nothing it did is committed
Escapes(st, status) ==
    [ escaped |-> TRUE, result |-> NewResult(<<>>, Nothing), store |-> st,
      status |-> status, ctx |-> NoContext ]

\* _process_fetched_items past the test of fetch_error: the try block and its
\* except handler. With the database unavailable the first statement raises
\* and so does the status update of the handler, which nothing catches.
process_stages(source_name, items, fetch_error, st, status, tr, fault) ==
    IF fault = "db"
    THEN {Escapes(st, status)}
    ELSE { IF o.error # Nothing
           THEN [ escaped |-> FALSE, store |-> o.store, ctx |-> o.ctx,
                  result |-> [NewResult(items, fetch_error) EXCEPT !.error = o.error],
                  status |-> update_source_status(status, source_name, FALSE, o.error) ]
           ELSE [ escaped |-> FALSE, store |-> o.store, ctx |-> o.ctx,
                  result |-> [NewResult(items, fetch_error) EXCEPT
                                !.duplicates = o.ctx.duplicates,
                                !.filtered = o.ctx.filtered,
                                !.translation_failed = o.ctx.translation_failed,
                                !.translation_dropped = o.ctx.translation_dropped,
                                !.saved = o.ctx.saved,
                                !.success = TRUE],
                  status |-> update_source_status(status, source_name, TRUE, Nothing) ] :
           o \in StageOutcomes(PipelineContext(source_name, items, TRANSLATION_REQUIRED),
                               st, tr, fault) }

\* (variant: a fetch error is raised to the caller instead of being recorded)
process_fetched_items_RaiseOnFetchError(source_name, items, fetch_error, st, status, tr, fault) ==
    IF Truthy(fetch_error)
    THEN {Escapes(st, status)}
    ELSE process_stages(source_name, items, fetch_error, st, status, tr, fault)

\* _process_fetched_items: the ways the call may end. The status update of a
\* fetch error is outside the try block.
process_fetched_items(source_name, items, fetch_error, st, status, tr, fault) ==
    IF Truthy(fetch_error)
    THEN IF fault = "db"
         THEN {Escapes(st, status)}
         ELSE {[ escaped |-> FALSE, result |-> NewResult(items, fetch_error),
                 store |-> st, ctx |-> NoContext,
                 status |-> update_source_status(status, source_name, FALSE, fetch_error) ]}
    ELSE process_stages(source_name, items, fetch_error, st, status, tr, fault)

\* the totals of run_all after one more source
Accumulate(results, source_result) ==
    [ results EXCEPT
        !.sources = Append(@, source_result),
        !.total_fetched = @ + source_result.fetched,
        !.total_saved = @ + source_result.saved,
        !.total_duplicates = @ + source_result.duplicates,
        !.total_filtered = @ + source_result.filtered,
        !.total_translation_failed = @ + source_result.translation_failed,
        !.total_translation_dropped = @ + source_result.translation_dropped,
        !.success = @ /\ source_result.success ]

InitEngine ==
    /\ store \in {<<>>, RowsOf({11})}
    /\ ctx = NoContext
    /\ pc = "idle"
    /\ pre = NoContext
    /\ translator = "service"
    /\ log = NoLog
    /\ source_status = NoStatuses
    /\ run = NoRun

\* run_all up to the end of the gather: every fetcher has returned or raised
RunAllFetch ==
    /\ pc = "idle"
    /\ \E plan \in [1..Len(FETCHERS) -> PlanEntries] :
         run' = [ kind |-> "run_all", plan |-> plan, store0 |-> store,
                  fetch_results |-> [i \in 1..Len(FETCHERS) |-> fetch_only(i, plan[i])],
                  i |-> 0, results |-> NoSummary ]
    /\ pc' = "processing"
    /\ UNCHANGED <<store, ctx, pre, translator, log, source_status>>

\* one turn of the sequential loop of run_all
RunAllProcess ==
    /\ pc = "processing"
    /\ run.i < Len(run.fetch_results)
    /\ LET fetch_result == run.fetch_results[run.i + 1]
       IN  \E out \in process_fetched_items(fetch_result.source, fetch_result.items,
                          fetch_result.error, store, source_status, translator,
                          run.plan[run.i + 1].fault) :
              IF out.escaped
              THEN /\ pc' = "raised"
                   /\ ctx' = NoContext
                   /\ UNCHANGED <<store, source_status, run>>
              ELSE /\ pc' = "processing"
                   /\ ctx' = out.ctx
                   /\ store' = out.store
                   /\ source_status' = out.status
                   /\ run' = [run EXCEPT !.i = @ + 1,
                                         !.results = Accumulate(@, out.result)]
    /\ UNCHANGED <<pre, translator, log>>

\* run_all returns its results
RunAllReturn ==
    /\ pc = "processing"
    /\ run.i = Len(run.fetch_results)
    /\ pc' = "returned"
    /\ UNCHANGED <<store, ctx, pre, translator, log, source_status, run>>

SourceIndex(source_name) == CHOOSE i \in 1..Len(FETCHERS) : FETCHERS[i] = source_name

\* _run_source for the i-th fetcher: fetch and pipeline inside one try block,
\* whose handler updates the status and returns a result without "filtered"
run_one_source(i, e, st, status, tr) ==
    IF e.raises
    THEN IF e.fault = "db"
         THEN {Escapes(st, status)}
         ELSE {[ escaped |-> FALSE, store |-> st, ctx |-> NoContext,
                 result |-> [ success |-> FALSE, fetched |-> 0, saved |-> 0,
                              duplicates |-> 0, translation_failed |-> 0,
                              translation_dropped |-> 0, error |-> Str(e.msg) ],
                 status |-> update_source_status(status, FETCHERS[i], FALSE, Str(e.msg)) ]}
    ELSE process_fetched_items(FETCHERS[i], fetch_only(i, e).items, Nothing,
                               st, status, tr, e.fault)

\* run_source: a registered fetcher, or a name that no fetcher and no custom
\* source carries
RunSource ==
    /\ pc = "idle"
    /\ \E source_name \in SourceNames \cup {"unknown"}, e \in PlanEntries :
         \E out \in
              IF source_name \in SourceNames
              THEN run_one_source(SourceIndex(source_name), e, store, source_status,
                                  translator)
              ELSE IF e.fault = "db"
              THEN {Escapes(store, source_status)}
              ELSE {[ escaped |-> FALSE, store |-> store, ctx |-> NoContext,
                      status |-> source_status,
                      result |-> [ success |-> FALSE,
                                   error |-> Str("Unknown source"), fetched |-> 0,
                                   saved |-> 0, duplicates |-> 0 ] ]} :
            /\ pc' = IF out.escaped THEN "raised" ELSE "returned"
            /\ ctx' = out.ctx
            /\ store' = out.store
            /\ source_status' = out.status
            /\ run' = [ kind |-> "run_source", plan |-> <<e>>, store0 |-> store,
                        fetch_results |-> <<>>, i |-> 1,
                        results |-> [NoSummary EXCEPT !.sources =
                                        IF out.escaped THEN <<>> ELSE <<out.result>>] ]
    /\ UNCHANGED <<pre, translator, log>>

NextEngine == RunAllFetch \/ RunAllProcess \/ RunAllReturn \/ RunSource

SpecEngine == InitEngine /\ [][NextEngine]_vars

----------------------------------------------------------------------------
(* Claims on the engine                                                    *)

\* the ways run_all may go from source i on, for a plan
RECURSIVE RunAllOutcomes(_, _, _, _, _)
RunAllOutcomes(plan, i, st, status, acc) ==
    IF i > Len(plan)
    THEN {[sources |-> acc, status |-> status, store |-> st, escaped |-> FALSE]}
    ELSE LET fetch_result == fetch_only(i, plan[i])
         IN  UNION { IF out.escaped
                     THEN {[sources |-> acc, status |-> status, store |-> st,
                            escaped |-> TRUE]}
                     ELSE RunAllOutcomes(plan, i + 1, out.store, out.status,
                                         Append(acc, out.result)) :
                     out \in process_fetched_items(fetch_result.source, fetch_result.items,
                                 fetch_result.error, st, status, translator,
                                 plan[i].fault) }

RunAllOver == run.kind = "run_all" /\ pc \in {"returned", "raised"}

\* the sources that are not failing got what they get in the run ref
SameForOthers(ref) ==
    /\ Len(run.results.sources) = Len(ref.sources)
    /\ \A i \in 1..Len(FETCHERS) :
          ~run.plan[i].raises =>
              /\ i <= Len(ref.sources) => run.results.sources[i] = ref.sources[i]
              /\ source_status[FETCHERS[i]] = ref.status[FETCHERS[i]]

\* the fetch result of a source whose fetch raised has no item and the
\* error string
FailingGetError ==
    \A i \in 1..Len(run.plan) :
        run.plan[i].raises =>
            /\ run.fetch_results[i].items = <<>>
            /\ run.fetch_results[i].error = Str(run.plan[i].msg)

\* the plans in which the failing fetchers of the plan return items instead
Succeeding(plan) ==
    { p \in [1..Len(plan) -> PlanEntries] :
        \A i \in 1..Len(plan) :
            IF plan[i].raises
            THEN ~p[i].raises /\ p[i].fault = plan[i].fault
            ELSE p[i] = plan[i] }

\* the plan in which the failing fetchers of the plan return no item
NothingFetched(plan) ==
    [i \in 1..Len(plan) |->
        IF plan[i].raises
        THEN [plan[i] EXCEPT !.raises = FALSE, !.msg = "", !.items = <<>>]
        ELSE plan[i]]

\* C4 as stated: whatever fetchers raise, every other source gets the result
\* and the status it would get in a run where no fetch had failed, and a
\* failing source gets no item and its error string
C4_OthersAsIfNoneFailed ==
    RunAllOver =>
        /\ FailingGetError
        /\ \A p \in Succeeding(run.plan) :
              \E ref \in RunAllOutcomes(p, 1, run.store0, NoStatuses, <<>>) :
                  SameForOthers(ref)

\* C4 amended: whatever fetchers raise, every other source gets the result
\* and the status it would get in a run where the failing fetchers had
\* returned no item, and a failing source gets no item and its error string
C4_OthersAsIfNothingFetched ==
    RunAllOver =>
        /\ FailingGetError
        /\ \E ref \in RunAllOutcomes(NothingFetched(run.plan), 1, run.store0,
                                     NoStatuses, <<>>) :
              SameForOthers(ref)

\* run_all has returned; the second fetcher raised and has its error in its
\* result and its status row, the first and the third source saved an item
C4_Witness ==
    /\ pc = "returned"
    /\ run.kind = "run_all"
    /\ run.plan[2].raises
    /\ run.results.sources[2].error = Str("timeout")
    /\ source_status[FETCHERS[2]].last_error_at = Now
    /\ run.results.sources[1].saved = 1
    /\ run.results.sources[3].saved = 1
    /\ source_status[FETCHERS[3]].last_success_at = Now

\* C5: run_all and run_source never end with an exception, whichever
\* fetchers and stages raise
C5_NeverPropagates == pc # "raised"

\* the i-th source of the run failed: its fetch raised or a stage raised
SourceFailed(i) == run.plan[i].raises \/ run.plan[i].fault \in {"first", "last"}

\* C12: the summary run_all returns has success false exactly when a source
\* failed, whatever was saved
C12_SuccessIffNoSourceFailed ==
    (pc = "returned" /\ run.kind = "run_all") =>
        (run.results.success = FALSE <=> \E i \in 1..Len(run.plan) : SourceFailed(i))

\* the status row of the i-th source
StatusOf(i) == source_status[FETCHERS[i]]

\* C13: when run_all has processed a source, the status row of the source
\* has been written once: with the success time when neither its fetch nor a
\* stage raised, whatever was saved, and else with the error time and the
\* message of the error
C13_StatusWrittenOnce ==
    run.kind = "run_all" =>
        \A i \in 1..Len(run.results.sources) :
            /\ StatusOf(i).writes = 1
            /\ IF SourceFailed(i)
               THEN /\ StatusOf(i).last_error_at = Now
                    /\ StatusOf(i).last_success_at = None
                    /\ StatusOf(i).last_error_message = run.results.sources[i].error
                    /\ run.plan[i].raises =>
                          StatusOf(i).last_error_message = Str(run.plan[i].msg)
               ELSE /\ StatusOf(i).last_success_at = Now
                    /\ StatusOf(i).last_error_at = None

\* C16: the result of a source whose stages all completed accounts for
\* every fetched item: each one is a duplicate, filtered, dropped by the
\* translation policy or saved
C16_EveryItemCounted ==
    \A i \in 1..Len(run.results.sources) :
        LET r == run.results.sources[i]
        IN  (r.success /\ "filtered" \in DOMAIN r) =>
                r.fetched = r.duplicates + r.filtered + r.translation_dropped + r.saved

\* the stages are run for the i-th source of the run, and one of them raises
StageRaises(i) ==
    /\ ~Truthy(fetch_only(i, run.plan[i]).error)
    /\ run.plan[i].fault \in {"first", "last", "db"}

\* C21: when a stage raises for a source that run_all has reached, the
\* result of the source has success false, the message of the exception and
\* nothing saved, its status row has the error time and that message, and
\* the sources after it are processed
C21_StageErrorIsolated ==
    RunAllOver =>
        \A i \in 1..Len(run.plan) :
            (StageRaises(i) /\ i <= run.i + 1) =>
                /\ i <= Len(run.results.sources)
                /\ run.results.sources[i].success = FALSE
                /\ Truthy(run.results.sources[i].error)
                /\ run.results.sources[i].saved = 0
                /\ StatusOf(i).last_error_at = Now
                /\ StatusOf(i).last_error_message = run.results.sources[i].error
                /\ Len(run.results.sources) = Len(run.plan)

----------------------------------------------------------------------------
(* run_all with a progress callback and concurrent fetch tasks             *)

\* what the fetchers and the sources do in the runs with a callback
ProgressEntries ==
    {e \in PlanEntries :
        \/ ~e.raises /\ e.fault = "none"
        \/ e.raises /\ e.msg = "timeout" /\ e.fault = "none"
        \/ ~e.raises /\ e.items = <<>> /\ e.fault \in {"first", "db"}}

\* invocations of the callback in one run: one for sources_total, two per
\* source
MaxCalls == 1 + 2 * Len(FETCHERS)

\* progress_callback: None, or a coroutine function whose raises_at-th
\* invocation raises (0: none does)
Sinks ==
    {[present |-> FALSE, raises_at |-> 0]}
    \cup {[present |-> TRUE, raises_at |-> k] : k \in 0..MaxCalls}

\* a call of run_all: also the callback, the number of its invocations, the
\* updates it took, the fetch tasks in the order they ended, and the sources
\* whose status row was written, in the order of the writes
ProgressRun ==
    [ sink |-> [present |-> FALSE, raises_at |-> 0], calls |-> 0, progress |-> <<>>,
      settled |-> <<>>, writes |-> <<>> ] @@ NoRun

\* `if progress_callback: await progress_callback(update)`
Notify(r, update) ==
    IF ~r.sink.present THEN r
    ELSE [r EXCEPT !.calls = @ + 1,
                   !.progress = IF r.calls + 1 = r.sink.raises_at THEN @
                                ELSE Append(@, update)]

\* the invocation just made raised
SinkRaised(r) == r.sink.present /\ r.calls = r.sink.raises_at

InitProgress ==
    /\ store = <<>>
    /\ ctx = NoContext
    /\ pc = "idle"
    /\ pre = NoContext
    /\ translator = "service"
    /\ log = NoLog
    /\ source_status = NoStatuses
    /\ run = ProgressRun

\* run_all up to the creation of the fetch tasks
ProgressStart ==
    /\ pc = "idle"
    /\ \E plan \in [1..Len(FETCHERS) -> ProgressEntries], sink \in Sinks :
         LET r == Notify([ProgressRun EXCEPT !.kind = "run_all", !.plan = plan,
                                             !.store0 = store, !.sink = sink],
                         [sources_total |-> Len(FETCHERS)])
         IN  /\ run' = r
             /\ pc' = IF SinkRaised(r) THEN "raised" ELSE "fetching"
    /\ UNCHANGED <<store, ctx, pre, translator, log, source_status>>

\* one of the fetch tasks ends (returns its items or its error)
FetchSettles ==
    /\ pc = "fetching"
    /\ \E i \in 1..Len(FETCHERS) :
         /\ \A k \in 1..Len(run.settled) : run.settled[k] # i
         /\ run' = [run EXCEPT !.settled = Append(@, i)]
    /\ UNCHANGED <<store, ctx, pc, pre, translator, log, source_status>>

\* asyncio.gather returns the results of the tasks in the order of the tasks
GatherReturns ==
    /\ pc = "fetching"
    /\ Len(run.settled) = Len(FETCHERS)
    /\ run' = [run EXCEPT !.fetch_results =
                   [i \in 1..Len(FETCHERS) |-> fetch_only(i, run.plan[i])]]
    /\ pc' = "processing"
    /\ UNCHANGED <<store, ctx, pre, translator, log, source_status>>

\* one turn of the sequential loop of run_all, the two callbacks included
ProgressSource ==
    /\ pc = "processing"
    /\ run.i < Len(run.fetch_results)
    /\ LET fetch_result == run.fetch_results[run.i + 1]
           r1 == Notify(run, [current_source |-> fetch_result.source,
                              sources_completed |-> run.i])
       IN  IF SinkRaised(r1)
           THEN /\ pc' = "raised"
                /\ run' = r1
                /\ UNCHANGED <<store, ctx, source_status>>
           ELSE \E out \in process_fetched_items(fetch_result.source, fetch_result.items,
                               fetch_result.error, store, source_status, translator,
                               run.plan[run.i + 1].fault) :
                  IF out.escaped
                  THEN /\ pc' = "raised"
                       /\ run' = r1
                       /\ ctx' = NoContext
                       /\ UNCHANGED <<store, source_status>>
                  ELSE LET results == Accumulate(run.results, out.result)
                           r2 == [r1 EXCEPT
                                    !.i = @ + 1,
                                    !.results = results,
                                    !.writes =
                                        IF out.status[fetch_result.source].writes
                                             > source_status[fetch_result.source].writes
                                        THEN Append(@, fetch_result.source) ELSE @]
                           r3 == Notify(r2, [sources_completed |-> run.i + 1,
                                             items_fetched |-> results.total_fetched,
                                             items_saved |-> results.total_saved,
                                             items_duplicates |-> results.total_duplicates])
                       IN  /\ run' = r3
                           /\ ctx' = out.ctx
                           /\ store' = out.store
                           /\ source_status' = out.status
                           /\ pc' = IF SinkRaised(r3) THEN "raised" ELSE "processing"
    /\ UNCHANGED <<pre, translator, log>>

NextProgress ==
    ProgressStart \/ FetchSettles \/ GatherReturns \/ ProgressSource \/ RunAllReturn

SpecProgress == InitProgress /\ [][NextProgress]_vars

----------------------------------------------------------------------------
(* Claims on the progress of run_all                                       *)

RunOver == run.kind = "run_all" /\ pc \in {"returned", "raised"}

\* the updates the callback gets for the sources from the k-th on, results
\* being the totals before the k-th
RECURSIVE ProgressOf(_, _, _)
ProgressOf(sources, k, results) ==
    IF k > Len(sources) THEN <<>>
    ELSE LET r == Accumulate(results, sources[k])
         IN  << [current_source |-> FETCHERS[k], sources_completed |-> k - 1],
                [sources_completed |-> k, items_fetched |-> r.total_fetched,
                 items_saved |-> r.total_saved,
                 items_duplicates |-> r.total_duplicates] >>
             \o ProgressOf(sources, k + 1, r)

\* the last value of sources_completed the callback was given
FinalCompleted ==
    LET with == {k \in 1..Len(run.progress) :
                    "sources_completed" \in DOMAIN run.progress[k]}
    IN  IF with = {} THEN 0
        ELSE run.progress[CHOOSE k \in with : \A j \in with : j <= k].sources_completed

\* the statuses are written in registration order, one per source
WritesInOrder ==
    /\ Len(run.writes) = Len(FETCHERS)
    /\ \A k \in 1..Len(run.writes) : run.writes[k] = FETCHERS[k]

\* the updates and the statuses are those of the sequential run over the
\* plan, whatever the order in which the fetch tasks ended
SameAsSequential ==
    \E ref \in RunAllOutcomes(run.plan, 1, run.store0, NoStatuses, <<>>) :
        /\ run.progress = <<[sources_total |-> Len(FETCHERS)]>>
                              \o ProgressOf(ref.sources, 1, NoSummary)
        /\ source_status = ref.status

\* C14: in whatever order the fetch tasks end, no source is processed before
\* all of them have ended, the sources are processed in registration order,
\* the updates of the callback and the status writes are those of the
\* sequential run, and the last sources_completed is sources_total
C14_SameProgressForEveryOrder ==
    /\ (run.kind = "run_all" /\ (run.i > 0 \/ pc = "processing")) =>
            Len(run.settled) = Len(FETCHERS)
    /\ (RunOver /\ run.sink.present) =>
            /\ WritesInOrder
            /\ SameAsSequential
            /\ FinalCompleted = Len(FETCHERS)

\* C15: when an invocation of the callback raises, run_all still processes
\* every source and ends as it does without a raising callback, with the
\* same results
C15_SinkErrorsIgnored ==
    (RunOver /\ run.sink.present) =>
        \E ref \in RunAllOutcomes(run.plan, 1, run.store0, NoStatuses, <<>>) :
            /\ ref.escaped = (pc = "raised")
            /\ run.results.sources = ref.sources
            /\ source_status = ref.status

----------------------------------------------------------------------------
(* The callers of run_all: the scheduler's jobs and the admin endpoint     *)

MaxFires == 2       \* times one caller starts a run

\* the two scheduler jobs that run scheduled_fetch, and POST /fetch/run
SchedulerJobs == {"rss_fetch_initial", "rss_fetch_job"}
Callers == SchedulerJobs \cup {"run_fetch"}

\* a caller: whether a run_all it started is executing, the number of
\* sources that run has processed, and the runs it has started
NoCall == [running |-> FALSE, i |-> 0, fired |-> 0]

InitCallers ==
    /\ store = <<>>
    /\ ctx = NoContext
    /\ pc = "idle"
    /\ pre = NoContext
    /\ translator = "service"
    /\ log = NoLog
    /\ source_status = NoStatuses
    /\ run = [c \in Callers |-> NoCall]

\* the trigger of a scheduler job fires and the job calls run_all; the
\* scheduler starts no second instance of the same job (max_instances = 1),
\* and the date trigger of the initial job fires once
scheduled_fetch ==
    /\ \E job \in SchedulerJobs :
         /\ ~run[job].running
         /\ run[job].fired < (IF job = "rss_fetch_initial" THEN 1 ELSE MaxFires)
         /\ run' = [run EXCEPT ![job] = [running |-> TRUE, i |-> 0, fired |-> @.fired + 1]]
    /\ UNCHANGED <<store, ctx, pc, pre, translator, log, source_status>>

\* a request to POST /fetch/run is served: the handler calls run_all
run_fetch ==
    /\ ~run["run_fetch"].running
    /\ run["run_fetch"].fired < MaxFires
    /\ run' = [run EXCEPT !["run_fetch"] =
                   [running |-> TRUE, i |-> 0, fired |-> @.fired + 1]]
    /\ UNCHANGED <<store, ctx, pc, pre, translator, log, source_status>>

\* a run in progress goes on to its next source (the event loop resumes it
\* after an await)
RunAdvances ==
    /\ \E c \in Callers :
         /\ run[c].running
         /\ run[c].i < Len(FETCHERS)
         /\ run' = [run EXCEPT ![c].i = @ + 1]
    /\ UNCHANGED <<store, ctx, pc, pre, translator, log, source_status>>

\* a run in progress returns to its caller
RunEnds ==
    /\ \E c \in Callers :
         /\ run[c].running
         /\ run[c].i = Len(FETCHERS)
         /\ run' = [run EXCEPT ![c].running = FALSE]
    /\ UNCHANGED <<store, ctx, pc, pre, translator, log, source_status>>

NextCallers == scheduled_fetch \/ run_fetch \/ RunAdvances \/ RunEnds

SpecCallers == InitCallers /\ [][NextCallers]_vars

\* C23: at no time are two runs of run_all in progress
C23_AtMostOneRun ==
    Cardinality({c \in Callers : run[c].running}) <= 1

----------------------------------------------------------------------------
(* URL normalization and the three url_hash functions                      *)

\* the tracking parameters each function removes (of the nine common to the
\* three lists: utm_source; of the four only two lists have: mc_cid)
BaseFetcher_tracking_params == {"utm_source"}
DedupService_TRACKING_PARAMS == {"utm_source", "mc_cid"}
TRACKING_PARAMS == {"utm_source", "mc_cid"}

MaxParams == 2      \* parameters of a query string
ParamKeys == {"utm_source", "mc_cid", "id"}
ParamValues == {"", "1"}

\* a URL https://example.com/article[/][?k=v&...]: whether the path ends
\* with a slash, and the parameters of the query string in order
Urls ==
    [ slash : BOOLEAN,
      query : UNION {[1..n -> [k : ParamKeys, v : ParamValues]] : n \in 0..MaxParams} ]

\* parse_qs: the keys in order of first appearance, each with the list of
\* its non-blank values; a key with only blank values is absent
RECURSIVE ValuesOf(_, _, _)
ValuesOf(query, key, i) ==
    IF i > Len(query) THEN <<>>
    ELSE IF query[i].k = key /\ query[i].v # ""
    THEN <<query[i].v>> \o ValuesOf(query, key, i + 1)
    ELSE ValuesOf(query, key, i + 1)

RECURSIVE parse_qs(_, _, _)
parse_qs(query, i, seen) ==
    IF i > Len(query) THEN <<>>
    ELSE IF query[i].k \in seen \/ ValuesOf(query, query[i].k, 1) = <<>>
    THEN parse_qs(query, i + 1, seen)
    ELSE <<[k |-> query[i].k, v |-> ValuesOf(query, query[i].k, 1)]>>
         \o parse_qs(query, i + 1, seen \cup {query[i].k})

\* {k: v for k, v in query_params.items() if k.lower() not in tracking}
RECURSIVE filtered_params(_, _, _)
filtered_params(params, tracking, i) ==
    IF i > Len(params) THEN <<>>
    ELSE IF params[i].k \in tracking THEN filtered_params(params, tracking, i + 1)
    ELSE <<params[i]>> \o filtered_params(params, tracking, i + 1)

\* normalize_url with a list of tracking parameters: scheme, host and path,
\* then "?" and the parameters kept if there are any, then rstrip("/"),
\* which removes the slash of the path only when no query string follows
normalize_url(url, tracking) ==
    LET kept == filtered_params(parse_qs(url.query, 1, {}), tracking, 1)
    IN  [slash |-> url.slash /\ kept # <<>>, query |-> kept]

\* the first 16 hex digits of the SHA-256 of the normalized URL: equal for
\* equal normalized URLs, taken as different for different ones
sha256(normalized) == normalized

BaseFetcher_create_url_hash(url) == sha256(normalize_url(url, BaseFetcher_tracking_params))
DedupService_create_hash(url) == sha256(normalize_url(url, DedupService_TRACKING_PARAMS))
create_url_hash(url) == sha256(normalize_url(url, TRACKING_PARAMS))

\* the hashes of two URLs by the three functions
HashesOf(url) ==
    [ BaseFetcher |-> BaseFetcher_create_url_hash(url),
      DedupService |-> DedupService_create_hash(url),
      url_utils |-> create_url_hash(url) ]

InitUrl ==
    /\ store = <<>>
    /\ ctx = NoContext
    /\ pc = "idle"
    /\ pre = NoContext
    /\ translator = "service"
    /\ log = NoLog
    /\ source_status = NoStatuses
    /\ run \in [a : Urls, b : Urls, hash_a : {<<>>}, hash_b : {<<>>}]

\* the url_hash of the two URLs is computed
HashUrls ==
    /\ pc = "idle"
    /\ run' = [run EXCEPT !.hash_a = HashesOf(run.a), !.hash_b = HashesOf(run.b)]
    /\ pc' = "hashed"
    /\ UNCHANGED <<store, ctx, pre, translator, log, source_status>>

NextUrl == HashUrls

SpecUrl == InitUrl /\ [][NextUrl]_vars

\* the parameters of a query string that are not tracking parameters
RECURSIVE WithoutTracking(_, _)
WithoutTracking(query, i) ==
    IF i > Len(query) THEN <<>>
    ELSE IF query[i].k \in TRACKING_PARAMS THEN WithoutTracking(query, i + 1)
    ELSE <<query[i]>> \o WithoutTracking(query, i + 1)

\* a and b differ only in tracking parameters or in a slash at the very end
DifferOnlyInTrackingOrSlash(a, b) ==
    /\ WithoutTracking(a.query, 1) = WithoutTracking(b.query, 1)
    /\ WithoutTracking(a.query, 1) # <<>> => a.slash = b.slash

\* C24: two URLs that differ only in tracking parameters or in a trailing
\* slash get the same url_hash from each of the three hash functions
C24_HashInvariant ==
    (pc = "hashed" /\ DifferOnlyInTrackingOrSlash(run.a, run.b)) =>
        /\ run.hash_a.BaseFetcher = run.hash_b.BaseFetcher
        /\ run.hash_a.DedupService = run.hash_b.DedupService
        /\ run.hash_a.url_utils = run.hash_b.url_utils

----------------------------------------------------------------------------
(* match_score on pairs of titles                                          *)

\* the titles scored: the catalogue, and three more without any token:
\* Hangul only, a stop word, one letter and a sign
ScoreTexts ==
    {TitleText[t] : t \in AllTitles} \cup {<<200, 200, 200>>, <<20, 8, 5>>, <<1, 0, 50>>}

InitScore ==
    /\ store = <<>>
    /\ ctx = NoContext
    /\ pc = "idle"
    /\ pre = NoContext
    /\ translator = "service"
    /\ log = NoLog
    /\ source_status = NoStatuses
    /\ run \in [title_a : ScoreTexts, title_b : ScoreTexts,
                 jaccard : {Frac(0, 1)}, score : {NoScore}]

\* _match_score(title_a, title_b), with the Jaccard similarity it computes
MatchTitles ==
    /\ pc = "idle"
    /\ run' = [run EXCEPT
                 !.jaccard = jaccard_similarity(normalize_title(run.title_a),
                                                normalize_title(run.title_b)),
                 !.score = match_score(run.title_a, run.title_b)]
    /\ pc' = "scored"
    /\ UNCHANGED <<store, ctx, pre, translator, log, source_status>>

NextScore == MatchTitles

SpecScore == InitScore /\ [][NextScore]_vars

\* C25: two titles that both normalize to an empty token list have Jaccard
\* similarity 0 and get no match score
C25_EmptyNeverSimilar ==
    ( /\ pc = "scored"
      /\ normalize_title(run.title_a) = <<>>
      /\ normalize_title(run.title_b) = <<>> ) =>
        /\ run.jaccard = Frac(0, 1)
        /\ ~run.score.ok

----------------------------------------------------------------------------
(* Claims on the unavailable translator                                    *)

\* what the stage built with translator=None returns for the same context
AbsentOutcome ==
    TranslateStage_process(pre, "none", [thread_error |-> FALSE, chunks |-> <<>>]).ctx

\* C26: with a translator that has no client the stage leaves every item
\* with the status, and the context with the translation_failed counter,
\* that the stage built with translator=None leaves
C26_UnavailableAsAbsent ==
    (pc = "translated" /\ translator = "noclient") =>
        /\ Len(ctx.items) = Len(AbsentOutcome.items)
        /\ \A k \in 1..Len(ctx.items) :
              ctx.items[k].translation_status = AbsentOutcome.items[k].translation_status
        /\ ctx.translation_failed = AbsentOutcome.translation_failed

----------------------------------------------------------------------------
(* assign_group_id, one call at a time                                     *)

MaxSingles == 2     \* rows written without group id

InitAssign ==
    /\ store = <<>>
    /\ ctx = NoContext
    /\ pc = "idle"
    /\ pre = NoContext
    /\ translator = "service"
    /\ log = NoLog
    /\ source_status = NoStatuses
    /\ run = [before |-> <<>>, order |-> <<>>]

\* one call of assign_group_id for a new item; run keeps the table as it was
\* before the call and the order in which the query returned the candidates
AssignCall ==
    /\ pc = "idle"
    /\ Len(store) < MaxStore
    /\ \E a \in Attrs :
         LET item == [BatchItem(Len(store), 1, a) EXCEPT !.translation_status = "ok"]
         IN  \E order \in CandidateOrders(store, item.published_at - WINDOW_HOURS) :
                LET out == assign_group_id(store, item, order)
                IN  /\ pre' = PipelineContext("googlenews", <<item>>, TRUE)
                    /\ ctx' = PipelineContext("googlenews", <<out.item>>, TRUE)
                    /\ store' = out.store
                    /\ run' = [before |-> store, order |-> order]
    /\ pc' = "assigned"
    /\ UNCHANGED <<translator, log, source_status>>

\* the item is persisted with its group id
AssignSave ==
    /\ pc = "assigned"
    /\ LET out == PersistStage_process(ctx, store, {})
       IN  store' = out.store
    /\ ctx' = NoContext
    /\ pre' = NoContext
    /\ pc' = "idle"
    /\ UNCHANGED <<translator, log, source_status, run>>

\* a row written without group id (POST /feed/manual)
AddSingle ==
    /\ pc = "idle"
    /\ Len(store) < MaxStore
    /\ Cardinality({r \in 1..Len(store) : store[r].raw_gid = None}) < MaxSingles
    /\ \E a \in Attrs :
         LET url == 10 * a.domain + Len(store) + 1
         IN  store' = Append(store,
                 [ id |-> Len(store) + 1, source |-> "manual", title |-> a.title,
                   url |-> url, published_at |-> a.published_at,
                   url_hash |-> create_hash(url), raw_gid |-> None,
                   group_id |-> None, translation_status |-> "ok" ])
    /\ UNCHANGED <<ctx, pc, pre, translator, log, source_status, run>>

NextAssign == AssignCall \/ AssignSave \/ AddSingle

SpecAssign == InitAssign /\ [][NextAssign]_vars

----------------------------------------------------------------------------
(* Claims on assign_group_id                                               *)

\* the item given to the call and the group id the call gave it
Given == pre.items[1]
AssignedGid == ctx.items[1].gid

\* positions of the query result that are candidates: rows of the item's
\* domain (the query itself keeps the rows inside the time window)
CandidatePositions ==
    {i \in 1..Len(run.order) : netloc(run.before[run.order[i]].url) = netloc(Given.url)}
RowAt(i) == run.before[run.order[i]]
\* the first candidate of each group id, and the candidates without one
RepresentativePositions ==
    {i \in CandidatePositions :
        /\ RowAt(i).raw_gid # None
        /\ \A j \in CandidatePositions : j < i => RowAt(j).raw_gid # RowAt(i).raw_gid}
MatchingRepresentatives ==
    {i \in RepresentativePositions : Matches(Given.title, RowAt(i).title)}
MatchingSingles ==
    {i \in CandidatePositions :
        RowAt(i).raw_gid = None /\ Matches(Given.title, RowAt(i).title)}
ScoreAt(i) == MatchTable[Given.title][RowAt(i).title]
\* no row carried the group id before the call
Minted(g) == g # None /\ \A r \in 1..Len(run.before) : run.before[r].raw_gid # g

C27_WitnessSingles ==
    /\ pc = "assigned"
    /\ MatchingRepresentatives = {}
    /\ Cardinality(MatchingSingles) = 2
    /\ \E r \in 1..Len(store) : store[r].raw_gid = AssignedGid

\* the rows the call changed
ChangedRows == {r \in 1..Len(run.before) : store[r] # run.before[r]}

\* C29: a call of assign_group_id leaves every row that carried a group id
\* as it was, removes and adds no row, and changes at most one row, which
\* had no group id before the call
C29_GroupIdsStable ==
    pc = "assigned" =>
        /\ Len(store) = Len(run.before)
        /\ \A r \in 1..Len(run.before) :
              run.before[r].raw_gid # None => store[r] = run.before[r]
        /\ Cardinality(ChangedRows) <= 1
        /\ \A r \in ChangedRows :
              /\ run.before[r].raw_gid = None
              /\ store[r] = [run.before[r] EXCEPT !.raw_gid = AssignedGid]

\* the call gave a new id to an ungrouped row while a grouped row that
\* matches the item too, though its group's representative does not, kept its id
C29_Witness ==
    /\ pc = "assigned"
    /\ ChangedRows # {}
    /\ \E r \in 1..Len(run.before) :
          /\ run.before[r].raw_gid # None
          /\ netloc(run.before[r].url) = netloc(Given.url)
          /\ Matches(Given.title, run.before[r].title)
          /\ store[r].raw_gid # AssignedGid

----------------------------------------------------------------------------
(* Claims on the persisted url_hash values                                 *)

\* C28: no two rows of the table carry the same non-empty url_hash
C28_UniqueUrlHash ==
    \A r1, r2 \in 1..Len(store) :
        (r1 # r2 /\ store[r1].url_hash # None) =>
            store[r1].url_hash # store[r2].url_hash

\* two sources returned the same article in one run_all: the first one's
\* item was saved, the second one's was counted as a duplicate
C28_Witness ==
    /\ pc = "returned"
    /\ run.kind = "run_all"
    /\ \E i, j \in 1..Len(run.plan) :
          /\ i < j
          /\ run.plan[i].items # <<>>
          /\ run.plan[i].items = run.plan[j].items
          /\ run.results.sources[i].saved = 1
          /\ run.results.sources[j].duplicates = 1
          /\ run.results.sources[j].saved = 0

----------------------------------------------------------------------------
(* _update_source_status, one call after the other                         *)

MaxUpdates == 3     \* status updates in a row
StatusErrors == {Str("timeout"), Str("persist error")}

InitStatus ==
    /\ store = <<>>
    /\ ctx = NoContext
    /\ pc = "idle"
    /\ pre = NoContext
    /\ translator = "service"
    /\ log = NoLog
    /\ source_status = NoStatuses
    /\ run = [before |-> NoStatuses, source |-> "", success |-> FALSE,
              error |-> Nothing, n |-> 0]

\* one call of _update_source_status; run keeps the rows as they were before
UpdateStatus ==
    /\ pc \in {"idle", "updated"}
    /\ run.n < MaxUpdates
    /\ \E source_name \in SourceNames, success \in BOOLEAN, error \in StatusErrors :
         /\ source_status' = update_source_status(source_status, source_name, success,
                                 IF success THEN Nothing ELSE error)
         /\ run' = [before |-> source_status, source |-> source_name,
                    success |-> success,
                    error |-> IF success THEN Nothing ELSE error, n |-> run.n + 1]
    /\ pc' = "updated"
    /\ UNCHANGED <<store, ctx, pre, translator, log>>

NextStatus == UpdateStatus

SpecStatus == InitStatus /\ [][NextStatus]_vars

\* C30: a successful update sets last_success_at and keeps the row's
\* last_error_at and last_error_message; a failed update sets last_error_at
\* and last_error_message and keeps last_success_at; the rows of the other
\* sources stay as they were
C30_UpdateFrame ==
    pc = "updated" =>
        LET old == run.before[run.source]
            new == source_status[run.source]
        IN  /\ \A s \in SourceNames \ {run.source} : source_status[s] = run.before[s]
            /\ IF run.success
               THEN /\ new.last_success_at = Now
                    /\ new.last_error_at = old.last_error_at
                    /\ new.last_error_message = old.last_error_message
               ELSE /\ new.last_success_at = old.last_success_at
                    /\ new.last_error_at = Now
                    /\ new.last_error_message = run.error

\* a source recovers: the update is a success on a row that holds an error,
\* and another source holds an error too
C30_Witness ==
    /\ pc = "updated"
    /\ run.success
    /\ run.before[run.source].last_error_at # None
    /\ Truthy(source_status[run.source].last_error_message)
    /\ \E s \in SourceNames \ {run.source} : source_status[s].last_error_at # None

====
